---- MODULE Spec2Model ----
(***************************************************************************)
(* Motion synth: the polyphonic AudioEngine, the Home component that       *)
(* starts it and attaches the orientation listener (listenMotion), and the *)
(* bowed-mode sensor layer (listenSensors with its BowProcessor, and       *)
(* captureCalibration), and the monophonic ViolinEngine of bowed mode.     *)
(*                                                                         *)
(* Numbers are fixed point.  Normalised control values and pan are in      *)
(* 1/1000; gains are in 1/100000; cents and Q are in 1/1000; frequencies   *)
(* are in Hz; times are in milliseconds of performance.now().              *)
(***************************************************************************)
EXTENDS Integers, Sequences, FiniteSets, TLC

VARIABLES
  engine,      \* the AudioEngine instance held in engineRef; the ViolinEngine
               \* where the monophonic engine is the one under its caller
  page,        \* the Home component: refs and React state
  hs,          \* the handleStart invocations, each with its position
  listeners,   \* the closures created by listenMotion, in creation order
  delivered,   \* engine.setMotion calls made by listenMotion callbacks or by
               \* the caller of the engine; triggerOnset calls on the ViolinEngine
  now,         \* performance.now(); ctx.currentTime for the ViolinEngine
  call,        \* the latest call made on the engine or the mapping rows, with
               \* its run of cycle actions; the acceleration held on the device
  sens,        \* the closures of captureCalibration and of listenSensors (with
               \* its BowProcessor)
  out          \* what the consumer callback of listenSensors last received

vars == <<engine, page, hs, listeners, delivered, now, call, sens, out>>

----------------------------------------------------------------------------
(* Bounds *)

MaxVoices == 3      \* oscillator pairs created over one run
MaxStarts == 2      \* handleStart invocations over one run
MaxDelivered == 2   \* motion callbacks counted over one run
MaxNow == 32        \* horizon of the clock in the pad application
MaxCycles == 4      \* consecutive cycle actions counted on one axis
MaxMotions == 1     \* motion samples a caller passes to setMotion over one run

Null == -9999       \* a null / missing sensor field

MidiKeys == {60, 62}                 \* two of MIDI_NOTES
PadKeys == {60}                      \* the pad pressed in the pad application
EventGaps == {8, 16}                 \* time between two sensor events
ControlValues == {-1000, 500}      \* values a client passes to setMotion
OrientationSamples ==
  { [alpha |-> a, beta |-> 45, gamma |-> 45] : a \in {Null, 90} }

----------------------------------------------------------------------------
(* Arithmetic helpers *)

Abs(x) == IF x < 0 THEN -x ELSE x

Min(a, b) == IF a < b THEN a ELSE b

Max(a, b) == IF a > b THEN a ELSE b

\* division that truncates toward zero, the fixed-point image of a float quotient
Quot(a, b) == IF a >= 0 THEN a \div b ELSE -((-a) \div b)

clamp(v, lo, hi) == Max(lo, Min(hi, v))

----------------------------------------------------------------------------
(* AudioEngine *)

DEFAULT_MAPPINGS == [beta |-> "filter-cutoff", gamma |-> "vibrato-depth", alpha |-> "pan"]

BETA_TARGETS == <<"filter-cutoff", "wave-blend", "volume">>

GAMMA_TARGETS == <<"vibrato-depth", "resonance", "reverb", "distortion">>

\* a candidate list for alpha that shares a target with the list for beta
ALPHA_TARGETS_Overlapping == <<"pan", "volume", "pitch-bend">>

ALPHA_TARGETS == <<"pan", "delay-feedback", "pitch-bend">>

\* parameters of the graph before start(): no node exists
NoParams ==
  [masterGain |-> 0, pan |-> 0, filterFreq |-> 0, filterQ |-> 0, distCurve |-> 0,
   delayFeedback |-> 0, delayWet |-> 0, reverbDry |-> 0, reverbWet |-> 0, lfoGain |-> 0]

\* the values start() gives the nodes with setValueAtTime
InitialParams ==
  [masterGain |-> 70000, pan |-> 0, filterFreq |-> 900, filterQ |-> 700, distCurve |-> 0,
   delayFeedback |-> 0, delayWet |-> 30000, reverbDry |-> 100000, reverbWet |-> 0,
   lfoGain |-> 0]

\* new AudioEngine(): ctx is the number of the current AudioContext, 0 for null;
\* voices is the Map in insertion order, each entry <<midi, index into nodes>>;
\* nodes lists every oscillator pair ever created
NewAudioEngine ==
  [ctx |-> 0, graphs |-> 0, started |-> FALSE, voices |-> <<>>, nodes |-> <<>>,
   waveBlend |-> 0, mappings |-> DEFAULT_MAPPINGS, params |-> NoParams]

isStarted(e) == e.started

\* Map.has / Map.get on the voice table
HasVoice(e, midi) == \E i \in 1..Len(e.voices) : e.voices[i][1] = midi

GetVoice(e, midi) ==
  e.voices[CHOOSE i \in 1..Len(e.voices) : e.voices[i][1] = midi][2]

\* Map.set: replace the value of an existing key in place, else append
MapSet(m, midi, id) ==
  IF \E i \in 1..Len(m) : m[i][1] = midi
    THEN [i \in 1..Len(m) |-> IF m[i][1] = midi THEN <<midi, id>> ELSE m[i]]
    ELSE Append(m, <<midi, id>>)

\* Map.delete
MapDelete(m, midi) == SelectSeq(m, LAMBDA en : en[1] # midi)

\* start() up to its await: builds the context and the graph
startBuild(e) ==
  [e EXCEPT !.ctx = e.graphs + 1, !.graphs = e.graphs + 1, !.params = InitialParams]

\* start() after ctx.resume() has resolved
startResumed(e) == [e EXCEPT !.started = TRUE]

\* noteOn without the check that the pitch already has a voice
noteOn_NoHasCheck(e, midi) ==
  IF e.ctx = 0 THEN e
  ELSE LET voice == [midi |-> midi, state |-> "playing", ctx |-> e.ctx,
                     gainA |-> 1000 - e.waveBlend, gainB |-> e.waveBlend,
                     detune |-> 0]
       IN [e EXCEPT !.nodes = Append(e.nodes, voice),
                    !.voices = MapSet(e.voices, midi, Len(e.nodes) + 1)]

noteOn(e, midi) ==
  IF e.ctx = 0 THEN e
  ELSE IF HasVoice(e, midi) THEN e
  ELSE LET voice == [midi |-> midi, state |-> "playing", ctx |-> e.ctx,
                     gainA |-> 1000 - e.waveBlend, gainB |-> e.waveBlend,
                     detune |-> 0]
       IN [e EXCEPT !.nodes = Append(e.nodes, voice),
                    !.voices = MapSet(e.voices, midi, Len(e.nodes) + 1)]

\* noteOff that falls back to the oldest voice when the pitch has none
noteOff_FallsBack(e, midi) ==
  IF e.ctx = 0 \/ Len(e.voices) = 0 THEN e
  ELSE LET id == IF HasVoice(e, midi) THEN GetVoice(e, midi) ELSE e.voices[1][2]
           key == IF HasVoice(e, midi) THEN midi ELSE e.voices[1][1]
       IN [e EXCEPT !.nodes[id].state = "releasing",
                    !.voices = MapDelete(e.voices, key)]

noteOff(e, midi) ==
  IF ~HasVoice(e, midi) \/ e.ctx = 0 THEN e
  ELSE LET id == GetVoice(e, midi)
       IN [e EXCEPT !.nodes[id].state = "releasing",
                    !.voices = MapDelete(e.voices, midi)]

\* the loop of allOff over the live key iterator: an entry deleted by noteOff
\* leaves the iterator on the entry that followed it
RECURSIVE allOffFrom(_, _)
allOffFrom(e, i) ==
  IF i > Len(e.voices) THEN e
  ELSE LET e2 == noteOff(e, e.voices[i][1])
       IN IF Len(e2.voices) < Len(e.voices) THEN allOffFrom(e2, i)
                                            ELSE allOffFrom(e2, i + 1)

\* an allOff that iterates over a snapshot index and so skips the entry that
\* moves into the place of a deleted one
RECURSIVE allOffSkipping(_, _)
allOffSkipping(e, i) ==
  IF i > Len(e.voices) THEN e
  ELSE allOffSkipping(noteOff(e, e.voices[i][1]), i + 1)

allOff_Skips(e) == allOffSkipping(e, 1)

allOff(e) == allOffFrom(e, 1)

FEEDBACK_CAP == 75000    \* 0.75, the most the delay feedback gain is set to
WET_CAP == 50000         \* 0.5, the most the delay wet gain is set to

\* 200 * 20^n at n = k/8, rounded to Hz
CutoffTable == <<200, 291, 423, 615, 894, 1301, 1892, 2751, 4000>>

\* a cutoff that sweeps with the size of the value, whatever its sign
CutoffHz_OfAbs(v) ==
  LET n2 == 2 * Abs(v)
      k  == n2 \div 250
      r  == n2 % 250
  IN IF k >= 8 THEN CutoffTable[9]
     ELSE CutoffTable[k + 1] + ((CutoffTable[k + 2] - CutoffTable[k + 1]) * r) \div 250

\* 200 * Math.pow(20, (v + 1) * 0.5), interpolated between the table entries
CutoffHz(v) ==
  LET n2 == v + 1000
      k  == n2 \div 250
      r  == n2 % 250
  IN IF k >= 8 THEN CutoffTable[9]
     ELSE CutoffTable[k + 1] + ((CutoffTable[k + 2] - CutoffTable[k + 1]) * r) \div 250

\* an applyControl that takes the value as it comes
applyControl_NoClamp(e, target, value) ==
  IF e.ctx = 0 THEN e
  ELSE
    LET v == value IN
    CASE target = "filter-cutoff" -> [e EXCEPT !.params.filterFreq = CutoffHz(v)]
      [] target = "volume" ->
           [e EXCEPT !.params.masterGain = 15000 + Quot((v + 1000) * 75, 2)]
      [] target = "wave-blend" ->
           LET blend == Quot(v + 1000, 2)
           IN [e EXCEPT !.waveBlend = blend,
                        !.nodes = [i \in 1..Len(e.nodes) |->
                                     IF \E j \in 1..Len(e.voices) : e.voices[j][2] = i
                                       THEN [e.nodes[i] EXCEPT !.gainA = 1000 - blend,
                                                               !.gainB = blend]
                                       ELSE e.nodes[i]]]
      [] target = "vibrato-depth" -> [e EXCEPT !.params.lfoGain = Abs(v) * 40]
      [] target = "resonance" -> [e EXCEPT !.params.filterQ = 500 + Abs(v) * 14]
      [] target = "reverb" ->
           [e EXCEPT !.params.reverbWet = Abs(v) * 80,
                     !.params.reverbDry = 100000 - Abs(v) * 30]
      [] target = "distortion" ->
           [e EXCEPT !.params.distCurve = IF Abs(v) < 50 THEN 0 ELSE Abs(v) * 50]
      [] target = "pan" -> [e EXCEPT !.params.pan = v]
      [] target = "delay-feedback" ->
           LET fb == Abs(v) * 75
           IN [e EXCEPT !.params.delayFeedback = fb,
                        !.params.delayWet = Min(fb + 10000, 50000)]
      [] target = "pitch-bend" ->
           [e EXCEPT !.nodes = [i \in 1..Len(e.nodes) |->
                                  IF \E j \in 1..Len(e.voices) : e.voices[j][2] = i
                                    THEN [e.nodes[i] EXCEPT !.detune = v * 200]
                                    ELSE e.nodes[i]]]

applyControl(e, target, value) ==
  IF e.ctx = 0 THEN e
  ELSE
    LET v == Max(-1000, Min(1000, value)) IN
    CASE target = "filter-cutoff" -> [e EXCEPT !.params.filterFreq = CutoffHz(v)]
      [] target = "volume" ->
           [e EXCEPT !.params.masterGain = 15000 + Quot((v + 1000) * 75, 2)]
      [] target = "wave-blend" ->
           LET blend == Quot(v + 1000, 2)
           IN [e EXCEPT !.waveBlend = blend,
                        !.nodes = [i \in 1..Len(e.nodes) |->
                                     IF \E j \in 1..Len(e.voices) : e.voices[j][2] = i
                                       THEN [e.nodes[i] EXCEPT !.gainA = 1000 - blend,
                                                               !.gainB = blend]
                                       ELSE e.nodes[i]]]
      [] target = "vibrato-depth" -> [e EXCEPT !.params.lfoGain = Abs(v) * 40]
      [] target = "resonance" -> [e EXCEPT !.params.filterQ = 500 + Abs(v) * 14]
      [] target = "reverb" ->
           [e EXCEPT !.params.reverbWet = Abs(v) * 80,
                     !.params.reverbDry = 100000 - Abs(v) * 30]
      [] target = "distortion" ->
           [e EXCEPT !.params.distCurve = IF Abs(v) < 50 THEN 0 ELSE Abs(v) * 50]
      [] target = "pan" -> [e EXCEPT !.params.pan = v]
      [] target = "delay-feedback" ->
           LET fb == Abs(v) * 75
           IN [e EXCEPT !.params.delayFeedback = fb,
                        !.params.delayWet = Min(fb + 10000, 50000)]
      [] target = "pitch-bend" ->
           [e EXCEPT !.nodes = [i \in 1..Len(e.nodes) |->
                                  IF \E j \in 1..Len(e.voices) : e.voices[j][2] = i
                                    THEN [e.nodes[i] EXCEPT !.detune = v * 200]
                                    ELSE e.nodes[i]]]

\* a setMotion that routes by the default mappings
setMotion_DefaultMappings(e, alpha, beta, gamma) ==
  applyControl(applyControl(applyControl(e, DEFAULT_MAPPINGS.beta, beta),
                            DEFAULT_MAPPINGS.gamma, gamma),
               DEFAULT_MAPPINGS.alpha, alpha)

\* beta, then gamma, then alpha, each to the target its axis is mapped to
setMotion(e, alpha, beta, gamma) ==
  applyControl(applyControl(applyControl(e, e.mappings.beta, beta),
                            e.mappings.gamma, gamma),
               e.mappings.alpha, alpha)

----------------------------------------------------------------------------
(* listenMotion (pad mode) *)

THROTTLE_MS == 16     \* the least time between two runs of the handler

\* the closure variables when listenMotion returns, the handler registered
NewMotionListener ==
  [attached |-> TRUE, smoothAlpha |-> 0, smoothBeta |-> 0, smoothGamma |-> 0,
   alphaBaseline |-> Null, last |-> 0]

\* the delta from the baseline normalised without the wrap
RawAlpha_NoWrap(alpha, baseline) ==
  clamp(Quot((alpha - baseline) * 1000, 45), -1000, 1000)

\* the signed angular delta from the baseline, wrapped and normalised
RawAlpha(alpha, baseline) ==
  LET d0 == alpha - baseline
      d1 == IF d0 > 180 THEN d0 - 360 ELSE d0
      d2 == IF d1 < -180 THEN d1 + 360 ELSE d1
  IN clamp(Quot(d2 * 1000, 45), -1000, 1000)

\* a reading taken as it comes, null or not
OrZero_KeepsNull(x) == x

\* e.beta ?? 0, e.gamma ?? 0
OrZero(x) == IF x = Null THEN 0 ELSE x

\* one run of the handler on event e at time t: the closure afterwards, and
\* whether onMotion was called
MotionHandler(l, e, t) ==
  IF t - l.last < 16 THEN [l |-> l, called |-> FALSE]
  ELSE
    LET rawBeta  == clamp(Quot(OrZero(e.beta) * 1000, 45), -1000, 1000)
        rawGamma == clamp(Quot(OrZero(e.gamma) * 1000, 45), -1000, 1000)
        base     == IF e.alpha # Null /\ l.alphaBaseline = Null THEN e.alpha
                                                                ELSE l.alphaBaseline
        rawAlpha == IF e.alpha # Null THEN RawAlpha(e.alpha, base) ELSE 0
    IN [l |-> [l EXCEPT !.last = t,
                        !.alphaBaseline = base,
                        !.smoothAlpha = l.smoothAlpha + Quot(rawAlpha - l.smoothAlpha, 4),
                        !.smoothBeta = l.smoothBeta + Quot(rawBeta - l.smoothBeta, 4),
                        !.smoothGamma = l.smoothGamma + Quot(rawGamma - l.smoothGamma, 4)],
        called |-> TRUE]

\* the function listenMotion returns: removeEventListener
MotionCleanup(ls, i) == [ls EXCEPT ![i].attached = FALSE]

----------------------------------------------------------------------------
(* requestMotionPermission *)

\* what the platform offers: DeviceOrientationEvent.requestPermission that
\* resolves "granted", resolves something else or rejects; DeviceOrientationEvent
\* without requestPermission; no DeviceOrientationEvent global at all; no window
BrowserAPIs == {"resolves-granted", "resolves-other", "rejects", "no-function", "undefined"}

requestMotionPermission(api) ==
  CASE api = "no-window" -> "no-sensor"
    [] api = "undefined" -> "throws"          \* ReferenceError reading the global
    [] api = "resolves-granted" -> "granted"
    [] api = "resolves-other" -> "denied"
    [] api = "rejects" -> "denied"
    [] api = "no-function" -> "not-needed"

\* startMotion (the older start path): it awaits requestPermission without a
\* try, throws on any result but "granted", and then attaches its listener
startMotion(api) ==
  CASE api = "undefined" -> "throws"          \* ReferenceError reading the global
    [] api = "resolves-granted" -> "listening"
    [] api = "resolves-other" -> "throws"     \* Error("Motion permission not granted")
    [] api = "rejects" -> "throws"            \* the rejection of requestPermission
    [] api = "no-function" -> "listening"

\* requestAllPermissions: one boolean per event type, read from the globals
requestAllPermissions(api) ==
  CASE api = "undefined" -> "throws"          \* ReferenceError reading the global
    [] api = "resolves-granted" -> "granted"
    [] api = "resolves-other" -> "denied"
    [] api = "rejects" -> "denied"
    [] api = "no-function" -> "granted"

\* the promise is already settled when requestMotionPermission returns
SettlesAtOnce(api) == api \in {"no-function", "undefined", "no-window"}

----------------------------------------------------------------------------
(* Home (page.tsx) *)

\* a record of a call on the engine: the method, and the number of voices it
\* found (the voices of its pitch for noteOn / noteOff, all voices otherwise)
Called(op, n) == [op |-> op, n |-> n]

\* a continuation that runs before the event loop takes the next task
MicrotaskPending ==
  \E i \in 1..Len(hs) :
    \/ hs[i].pc \in {"afterStart", "startRejected"}
    \/ hs[i].pc = "awaitPermission" /\ SettlesAtOnce(hs[i].api)

\* the handleStart invocations that have not returned
InProgress ==
  {i \in 1..Len(hs) : hs[i].pc \in {"awaitPermission", "awaitResume", "afterStart",
                                    "startRejected"}}

\* the Start button is rendered while the component shows the start screen
HandleStart(api) ==
  /\ page.mounted /\ ~page.started
  /\ ~MicrotaskPending
  /\ Len(hs) < MaxStarts
  /\ ~isStarted(engine)
  /\ page' = [page EXCEPT !.errorMsg = FALSE,
                          !.motionStatus = "requesting permission..."]
  /\ hs' = Append(hs, [pc |-> "awaitPermission", api |-> api, permResult |-> "none"])
  /\ UNCHANGED <<engine, listeners, delivered, now, call, sens, out>>

\* the await of requestMotionPermission settles and engine.start() is called:
\* it returns at once when started, throws when no context can be constructed,
\* and otherwise builds the graph and awaits ctx.resume()
PermissionSettled(i, ctor) ==
  /\ i \in 1..Len(hs) /\ hs[i].pc = "awaitPermission"
  /\ SettlesAtOnce(hs[i].api) \/ ~MicrotaskPending
  /\ LET r == requestMotionPermission(hs[i].api) IN
       IF r = "throws"
         THEN /\ ctor = "ok"
              /\ hs' = [hs EXCEPT ![i].pc = "threw", ![i].api = "settled"]
              /\ UNCHANGED engine
         ELSE IF isStarted(engine)
           THEN /\ ctor = "ok"
                /\ hs' = [hs EXCEPT ![i].pc = "afterStart", ![i].api = "settled",
                                     ![i].permResult = r]
                /\ UNCHANGED engine
           ELSE IF ctor = "throws"
             THEN /\ hs' = [hs EXCEPT ![i].pc = "startRejected", ![i].api = "settled",
                                       ![i].permResult = r]
                  /\ UNCHANGED engine
             ELSE /\ hs' = [hs EXCEPT ![i].pc = "awaitResume", ![i].api = "settled",
                                       ![i].permResult = r]
                  /\ engine' = startBuild(engine)
  /\ UNCHANGED <<page, listeners, delivered, now, call, sens, out>>

\* ctx.resume() settles: start() sets started, or rejects
ResumeSettled(i, ok) ==
  /\ i \in 1..Len(hs) /\ hs[i].pc = "awaitResume"
  /\ ~MicrotaskPending
  /\ IF ok THEN /\ engine' = startResumed(engine)
                /\ hs' = [hs EXCEPT ![i].pc = "afterStart"]
           ELSE /\ hs' = [hs EXCEPT ![i].pc = "startRejected"]
                /\ UNCHANGED engine
  /\ UNCHANGED <<page, listeners, delivered, now, call, sens, out>>

\* a switch on permResult that calls listenMotion for "denied" as well
AttachesListener_AlsoDenied(permResult) ==
  permResult \in {"granted", "not-needed", "denied"}

\* the cases of the switch on permResult that call listenMotion
AttachesListener(permResult) == permResult \in {"granted", "not-needed"}

\* the rest of handleStart after await engine.start()
HandleStartContinue(i) ==
  /\ i \in 1..Len(hs) /\ hs[i].pc \in {"afterStart", "startRejected"}
  /\ hs' = [hs EXCEPT ![i].pc = "done", ![i].permResult = "none"]
  /\ IF hs[i].pc = "startRejected"
       THEN /\ page' = [page EXCEPT !.errorMsg = TRUE, !.motionStatus = "error"]
            /\ UNCHANGED listeners
       ELSE IF AttachesListener(hs[i].permResult)
         THEN /\ listeners' = Append(listeners, NewMotionListener)
              /\ page' = [page EXCEPT !.started = TRUE,
                                      !.cleanupMotionRef = Len(listeners) + 1,
                                      !.motionStatus = "active"]
         ELSE /\ page' = [page EXCEPT !.started = TRUE,
                                      !.errorMsg = TRUE,
                                      !.motionStatus =
                                        IF hs[i].permResult = "denied" THEN "denied"
                                                                       ELSE "unavailable"]
              /\ UNCHANGED listeners
  /\ UNCHANGED <<engine, delivered, now, call, sens, out>>

\* the cleanup of the effect: engine.allOff(), then cleanupMotionRef.current?.()
Unmount ==
  /\ page.mounted
  /\ ~MicrotaskPending
  /\ engine' = allOff(engine)
  /\ listeners' = IF page.cleanupMotionRef = 0 THEN listeners
                  ELSE MotionCleanup(listeners, page.cleanupMotionRef)
  /\ page' = [page EXCEPT !.mounted = FALSE,
                          !.startsAtTeardown = Cardinality(InProgress)]
  /\ call' = Called("allOff", Len(engine.voices))
  /\ UNCHANGED <<hs, delivered, now, sens, out>>

----------------------------------------------------------------------------
(* Home: pads and sensor events *)

\* the pads are rendered once the component shows the instrument
padDown(midi) ==
  /\ page.mounted /\ page.started
  /\ ~MicrotaskPending
  /\ Len(engine.nodes) < MaxVoices
  /\ engine' = noteOn(engine, midi)
  /\ call' = Called("noteOn", IF HasVoice(engine, midi) THEN 1 ELSE 0)
  /\ UNCHANGED <<page, hs, listeners, delivered, now, sens, out>>

padUp(midi) ==
  /\ page.mounted /\ page.started
  /\ ~MicrotaskPending
  /\ engine' = noteOff(engine, midi)
  /\ call' = Called("noteOff", IF HasVoice(engine, midi) THEN 1 ELSE 0)
  /\ UNCHANGED <<page, hs, listeners, delivered, now, sens, out>>

\* a deviceorientation event is dispatched to the registered handlers in order;
\* each callback that runs calls engine.setMotion with its smoothed values
RECURSIVE Dispatch(_, _, _, _, _, _)
Dispatch(ls, e, ev, t, i, n) ==
  IF i > Len(ls) THEN [listeners |-> ls, engine |-> e, calls |-> n]
  ELSE IF ~ls[i].attached THEN Dispatch(ls, e, ev, t, i + 1, n)
  ELSE LET r == MotionHandler(ls[i], ev, t)
       IN IF r.called
            THEN Dispatch([ls EXCEPT ![i] = r.l],
                          setMotion(e, r.l.smoothAlpha, r.l.smoothBeta, r.l.smoothGamma),
                          ev, t, i + 1, n + 1)
            ELSE Dispatch(ls, e, ev, t, i + 1, n)

\* the platform delivers an orientation event d ms after the previous one
DeviceOrientation(ev, d) ==
  /\ ~MicrotaskPending
  /\ \E i \in 1..Len(listeners) : listeners[i].attached
  /\ delivered < MaxDelivered
  /\ now + d <= MaxNow
  /\ now' = now + d
  /\ LET r == Dispatch(listeners, engine, ev, now + d, 1, 0)
     IN /\ listeners' = r.listeners
        /\ engine' = r.engine
        /\ delivered' = delivered + r.calls
  /\ call' = IF Dispatch(listeners, engine, ev, now + d, 1, 0).calls > 0
              THEN Called("setMotion", Len(engine.voices)) ELSE call
  /\ UNCHANGED <<page, hs, sens, out>>

----------------------------------------------------------------------------
(* The pad application: Home with its engine and listeners *)

NoSens == [cleaned |-> FALSE]

NoOut == [calls |-> 0]

Init ==
  /\ engine = NewAudioEngine
  /\ page = [mounted |-> TRUE, started |-> FALSE, motionStatus |-> "idle",
             errorMsg |-> FALSE, cleanupMotionRef |-> 0, startsAtTeardown |-> 0,
             mappings |-> DEFAULT_MAPPINGS]
  /\ hs = <<>>
  /\ listeners = <<>>
  /\ delivered = 0
  /\ now = 0
  /\ call = Called("none", 0)
  /\ sens = NoSens
  /\ out = NoOut

Next ==
  \/ \E api \in BrowserAPIs : HandleStart(api)
  \/ \E i \in 1..MaxStarts, ctor \in {"ok", "throws"} : PermissionSettled(i, ctor)
  \/ \E i \in 1..MaxStarts, ok \in BOOLEAN : ResumeSettled(i, ok)
  \/ \E i \in 1..MaxStarts : HandleStartContinue(i)
  \/ Unmount
  \/ \E midi \in PadKeys : padDown(midi)
  \/ \E midi \in PadKeys : padUp(midi)
  \/ \E ev \in OrientationSamples, d \in EventGaps : DeviceOrientation(ev, d)

Spec == Init /\ [][Next]_vars

----------------------------------------------------------------------------
(* The engine under a client that calls its public methods in any order *)

\* start(): returns at once when started; throws when no context can be
\* constructed; otherwise builds the graph and awaits ctx.resume()
StartCall(ctor) ==
  /\ Len(hs) < MaxStarts
  /\ IF isStarted(engine)
       THEN /\ ctor = "ok"
            /\ hs' = Append(hs, [pc |-> "resolved", api |-> "client", permResult |-> "none"])
            /\ UNCHANGED engine
       ELSE IF ctor = "throws"
         THEN /\ hs' = Append(hs, [pc |-> "rejected", api |-> "client", permResult |-> "none"])
              /\ UNCHANGED engine
         ELSE /\ hs' = Append(hs, [pc |-> "awaitResume", api |-> "client", permResult |-> "none"])
              /\ engine' = startBuild(engine)
  /\ UNCHANGED <<page, listeners, delivered, now, call, sens, out>>

\* ctx.resume() settles for a start() awaiting it
StartSettled(i, ok) ==
  /\ i \in 1..Len(hs) /\ hs[i].pc = "awaitResume"
  /\ IF ok THEN /\ engine' = startResumed(engine)
                /\ hs' = [hs EXCEPT ![i].pc = "resolved"]
           ELSE /\ hs' = [hs EXCEPT ![i].pc = "rejected"]
                /\ UNCHANGED engine
  /\ UNCHANGED <<page, listeners, delivered, now, call, sens, out>>

NoteOn(midi) ==
  /\ Len(engine.nodes) < MaxVoices
  /\ engine' = noteOn(engine, midi)
  /\ call' = Called("noteOn", IF HasVoice(engine, midi) THEN 1 ELSE 0)
  /\ UNCHANGED <<page, hs, listeners, delivered, now, sens, out>>

NoteOff(midi) ==
  /\ engine' = noteOff(engine, midi)
  /\ call' = Called("noteOff", IF HasVoice(engine, midi) THEN 1 ELSE 0)
  /\ UNCHANGED <<page, hs, listeners, delivered, now, sens, out>>

AllOff ==
  /\ engine' = allOff(engine)
  /\ call' = Called("allOff", Len(engine.voices))
  /\ UNCHANGED <<page, hs, listeners, delivered, now, sens, out>>

SetMotion(alpha, beta, gamma) ==
  /\ engine' = setMotion(engine, alpha, beta, gamma)
  /\ call' = Called("setMotion", Len(engine.voices))
  /\ UNCHANGED <<page, hs, listeners, delivered, now, sens, out>>

InitEngine == Init

NextEngine ==
  \/ \E ctor \in {"ok", "throws"} : StartCall(ctor)
  \/ \E i \in 1..MaxStarts, ok \in BOOLEAN : StartSettled(i, ok)
  \/ \E midi \in MidiKeys : NoteOn(midi)
  \/ \E midi \in MidiKeys : NoteOff(midi)
  \/ AllOff
  \/ \E v \in ControlValues : SetMotion(v, v, v)

SpecEngine == InitEngine /\ [][NextEngine]_vars

----------------------------------------------------------------------------
(* Home: the mapping rows *)

Axes == {"beta", "gamma", "alpha"}

\* the candidate list each AxisRow passes to updateMapping
TargetsOf(axis) ==
  CASE axis = "beta" -> BETA_TARGETS
    [] axis = "gamma" -> GAMMA_TARGETS
    [] axis = "alpha" -> ALPHA_TARGETS

\* list.indexOf(x): the first position of x counted from 0, or -1
IndexOf(list, x) ==
  IF \E i \in 1..Len(list) : list[i] = x
    THEN (CHOOSE i \in 1..Len(list) :
            list[i] = x /\ \A j \in 1..(i - 1) : list[j] # x) - 1
    ELSE -1

\* a nextTarget that stops at the last entry
nextTarget_NoWrap(current, list) ==
  list[Min(IndexOf(list, current) + 2, Len(list))]

nextTarget(current, list) ==
  list[((IndexOf(list, current) + 1) % Len(list)) + 1]

\* an updater that starts from the default mappings
updateMapping_ResetsOthers(prev, axis, list) ==
  [DEFAULT_MAPPINGS EXCEPT ![axis] = nextTarget(prev[axis], list)]

\* the updater of updateMapping: { ...prev, [axis]: nextTarget(prev[axis], list) }
updateMapping(prev, axis, list) ==
  [prev EXCEPT ![axis] = nextTarget(prev[axis], list)]

setMappings(e, m) == [e EXCEPT !.mappings = m]

\* the number this cycle action has in the run of cycle actions on its axis
RunLength(axis) ==
  IF call.op = "cycle" /\ call.axis = axis THEN call.n + 1 ELSE 1

\* a tap on the target button of an axis row; the rows are rendered once the
\* component shows the instrument
CycleMapping(axis) ==
  /\ page.mounted /\ page.started
  /\ ~MicrotaskPending
  /\ RunLength(axis) <= MaxCycles
  /\ LET next == updateMapping(page.mappings, axis, TargetsOf(axis))
     IN /\ page' = [page EXCEPT !.mappings = next]
        /\ engine' = setMappings(engine, next)
  /\ call' = [op |-> "cycle", n |-> RunLength(axis), axis |-> axis,
              from |-> IF RunLength(axis) = 1 THEN page.mappings[axis] ELSE call.from]
  /\ UNCHANGED <<hs, listeners, delivered, now, sens, out>>

\* Home once a handleStart has gone through with the permission granted, some
\* time after the page was loaded: the engine started, the instrument shown,
\* one listener attached
InitMappings ==
  /\ engine = startResumed(startBuild(NewAudioEngine))
  /\ page = [mounted |-> TRUE, started |-> TRUE, motionStatus |-> "active",
             errorMsg |-> FALSE, cleanupMotionRef |-> 1, startsAtTeardown |-> 0,
             mappings |-> DEFAULT_MAPPINGS]
  /\ hs = <<[pc |-> "done", api |-> "settled", permResult |-> "none"]>>
  /\ listeners = <<NewMotionListener>>
  /\ delivered = 0
  /\ now = THROTTLE_MS
  /\ call = Called("none", 0)
  /\ sens = NoSens
  /\ out = NoOut

NextMappings ==
  \/ \E axis \in Axes : CycleMapping(axis)
  \/ \E midi \in PadKeys : padDown(midi)
  \/ \E ev \in OrientationSamples : DeviceOrientation(ev, THROTTLE_MS)

SpecMappings == InitMappings /\ [][NextMappings]_vars

----------------------------------------------------------------------------
(* The started engine under the mapping rows, the pads and motion samples *)

\* the motion samples a caller of setMotion passes, some outside [-1, 1]
WideSamples ==
  { [alpha |-> 1000, beta |-> -1000, gamma |-> 1500],
    [alpha |-> -1500, beta |-> 1000, gamma |-> 400] }

\* the rows are set before the instrument is played: a cycle action comes
\* first or follows a cycle action
SettingUp == call.op \in {"none", "cycle"}

\* setMotion(alpha, beta, gamma) called with one motion sample
MotionSample(s) ==
  /\ delivered < MaxMotions
  /\ engine' = setMotion(engine, s.alpha, s.beta, s.gamma)
  /\ delivered' = delivered + 1
  /\ call' = [op |-> "setMotion", n |-> Len(engine.voices), sample |-> s]
  /\ UNCHANGED <<page, hs, listeners, now, sens, out>>

InitControls == InitMappings

NextControls ==
  \/ \E axis \in Axes : SettingUp /\ CycleMapping(axis)
  \/ \E midi \in PadKeys : NoteOn(midi)
  \/ \E midi \in PadKeys : NoteOff(midi)
  \/ AllOff
  \/ \E s \in WideSamples : MotionSample(s)
  \/ StartCall("ok")

SpecControls == InitControls /\ [][NextControls]_vars

----------------------------------------------------------------------------
(* The voices of the started engine, with their release tails *)

\* oscA.stop(t + 0.08) and oscB.stop(t + 0.08) take effect: the release tail
\* of a pair that noteOff released is over
TailEnds(i) ==
  /\ i \in 1..Len(engine.nodes)
  /\ engine.nodes[i].state = "releasing"
  /\ engine' = [engine EXCEPT !.nodes[i].state = "stopped"]
  /\ UNCHANGED <<page, hs, listeners, delivered, now, call, sens, out>>

InitVoices == InitMappings

NextVoices ==
  \/ SettingUp /\ CycleMapping("alpha")
  \/ \E midi \in MidiKeys : NoteOn(midi)
  \/ \E midi \in MidiKeys : NoteOff(midi)
  \/ AllOff
  \/ \E i \in 1..MaxVoices : TailEnds(i)
  \/ \E s \in WideSamples : MotionSample(s)

SpecVoices == InitVoices /\ [][NextVoices]_vars

----------------------------------------------------------------------------
(* BowProcessor *)

DAMPING == 91          \* 0.91, in 1/100
DEAD_ZONE == 600       \* 0.06 of MAX_VEL, as a velocity
MAX_VEL == 10000       \* 10, in 1/1000
MIN_ONSET_GAP_MS == 120

\* energy is held in units of 1/EnergyOne: (|v|/MAX_VEL - 0.06) / (1 - 0.06)
EnergyOne == MAX_VEL - DEAD_ZONE

\* the hysteresis threshold 0.12, in units of 1/EnergyOne
Hysteresis == (12 * EnergyOne) \div 100

\* Math.pow(DAMPING, dt * 60) in 1/10000, for dt = 0 .. 50 ms
DampTable ==
  <<10000, 9944, 9887, 9832, 9776, 9721, 9666, 9612, 9557, 9503, 9450, 9397, 9344,
    9291, 9238, 9186, 9134, 9083, 9032, 8981, 8930, 8880, 8829, 8780, 8730, 8681,
    8632, 8583, 8535, 8487, 8439, 8391, 8344, 8297, 8250, 8203, 8157, 8111, 8065,
    8020, 7974, 7929, 7885, 7840, 7796, 7752, 7708, 7665, 7621, 7578, 7536>>

NewBowProcessor(invert) ==
  [velocity |-> 0, direction |-> 1, lastOnsetTime |-> 0, lastTime |-> 0,
   invertAxis |-> invert]

\* reset()
\* a reset() that leaves the velocity as it is
BowReset_KeepsVelocity(bow) == bow

BowReset(bow) == [bow EXCEPT !.velocity = 0]

\* an energy without the dead zone and its rescaling
Energy_NoDeadZone(velocity) == Abs(velocity)

\* the energy update() derives from a velocity
Energy(velocity) ==
  LET absV == Abs(velocity)
  IN IF absV < DEAD_ZONE THEN 0 ELSE Min(EnergyOne, absV - DEAD_ZONE)

\* update() that reports an onset on every flip
BowUpdate_NoDebounce(bow, accel, t) ==
  LET dt == IF bow.lastTime # 0 THEN Min(t - bow.lastTime, 50) ELSE 16
      a  == IF bow.invertAxis THEN -accel ELSE accel
      v  == clamp(Quot((bow.velocity + a * dt) * DampTable[dt + 1], 10000),
                  -MAX_VEL, MAX_VEL)
      energy == Energy(v)
      newDir == IF v >= 0 THEN 1 ELSE -1
      flip   == newDir # bow.direction /\ energy > Hysteresis
      onset  == flip
  IN [bow |-> [bow EXCEPT !.lastTime = t,
                          !.velocity = v,
                          !.lastOnsetTime = IF onset THEN t ELSE bow.lastOnsetTime,
                          !.direction = IF flip THEN newDir ELSE bow.direction],
      energy |-> energy,
      direction |-> IF flip THEN newDir ELSE bow.direction,
      onset |-> onset]

\* update() whose debounce lets an onset through at exactly the minimum gap
BowUpdate_GapInclusive(bow, accel, t) ==
  LET dt == IF bow.lastTime # 0 THEN Min(t - bow.lastTime, 50) ELSE 16
      a  == IF bow.invertAxis THEN -accel ELSE accel
      v  == clamp(Quot((bow.velocity + a * dt) * DampTable[dt + 1], 10000),
                  -MAX_VEL, MAX_VEL)
      energy == Energy(v)
      newDir == IF v >= 0 THEN 1 ELSE -1
      flip   == newDir # bow.direction /\ energy > Hysteresis
      onset  == flip /\ t - bow.lastOnsetTime >= MIN_ONSET_GAP_MS
  IN [bow |-> [bow EXCEPT !.lastTime = t,
                          !.velocity = v,
                          !.lastOnsetTime = IF onset THEN t ELSE bow.lastOnsetTime,
                          !.direction = IF flip THEN newDir ELSE bow.direction],
      energy |-> energy,
      direction |-> IF flip THEN newDir ELSE bow.direction,
      onset |-> onset]

\* update() that flips the direction on every change of sign
BowUpdate_NoHysteresis(bow, accel, t) ==
  LET dt == IF bow.lastTime # 0 THEN Min(t - bow.lastTime, 50) ELSE 16
      a  == IF bow.invertAxis THEN -accel ELSE accel
      v  == clamp(Quot((bow.velocity + a * dt) * DampTable[dt + 1], 10000),
                  -MAX_VEL, MAX_VEL)
      energy == Energy(v)
      newDir == IF v >= 0 THEN 1 ELSE -1
      flip   == newDir # bow.direction
      onset  == flip /\ t - bow.lastOnsetTime > MIN_ONSET_GAP_MS
  IN [bow |-> [bow EXCEPT !.lastTime = t,
                          !.velocity = v,
                          !.lastOnsetTime = IF onset THEN t ELSE bow.lastOnsetTime,
                          !.direction = IF flip THEN newDir ELSE bow.direction],
      energy |-> energy,
      direction |-> IF flip THEN newDir ELSE bow.direction,
      onset |-> onset]

\* an update that integrates and damps the velocity without clamping it
BowUpdate_NoClamp(bow, accel, t) ==
  LET dt == IF bow.lastTime # 0 THEN Min(t - bow.lastTime, 50) ELSE 16
      a  == IF bow.invertAxis THEN -accel ELSE accel
      v  == Quot((bow.velocity + a * dt) * DampTable[dt + 1], 10000)
      energy == Energy(v)
      newDir == IF v >= 0 THEN 1 ELSE -1
      flip   == newDir # bow.direction /\ energy > Hysteresis
      onset  == flip /\ t - bow.lastOnsetTime > MIN_ONSET_GAP_MS
  IN [bow |-> [bow EXCEPT !.lastTime = t,
                          !.velocity = v,
                          !.lastOnsetTime = IF onset THEN t ELSE bow.lastOnsetTime,
                          !.direction = IF flip THEN newDir ELSE bow.direction],
      energy |-> energy,
      direction |-> IF flip THEN newDir ELSE bow.direction,
      onset |-> onset]

\* update(accel) at time t: the processor afterwards and the bow state returned
BowUpdate(bow, accel, t) ==
  LET dt == IF bow.lastTime # 0 THEN Min(t - bow.lastTime, 50) ELSE 16
      a  == IF bow.invertAxis THEN -accel ELSE accel
      v  == clamp(Quot((bow.velocity + a * dt) * DampTable[dt + 1], 10000),
                  -MAX_VEL, MAX_VEL)
      energy == Energy(v)
      newDir == IF v >= 0 THEN 1 ELSE -1
      flip   == newDir # bow.direction /\ energy > Hysteresis
      onset  == flip /\ t - bow.lastOnsetTime > MIN_ONSET_GAP_MS
  IN [bow |-> [bow EXCEPT !.lastTime = t,
                          !.velocity = v,
                          !.lastOnsetTime = IF onset THEN t ELSE bow.lastOnsetTime,
                          !.direction = IF flip THEN newDir ELSE bow.direction],
      energy |-> energy,
      direction |-> IF flip THEN newDir ELSE bow.direction,
      onset |-> onset]

----------------------------------------------------------------------------
(* listenSensors (bowed mode) *)

WatchdogPeriod == 200     \* the interval of the watchdog timer
WatchdogSilence == 400    \* the silence after which the watchdog acts

\* listenSensors(callback, calibration, invertBow) called at time t: both
\* handlers registered, the interval timer running
NewSensors(calibration, invertBow, t) ==
  [created |-> t,
   orientationAttached |-> TRUE, motionAttached |-> TRUE, watchdog |-> TRUE,
   nextTick |-> t + WatchdogPeriod, cleaned |-> FALSE,
   latestBeta |-> 0, latestGamma |-> 0, smoothBeta |-> 0, smoothGamma |-> 0,
   bOff |-> calibration.betaOffset, gOff |-> calibration.gammaOffset,
   lastMotionTime |-> t, bow |-> NewBowProcessor(invertBow)]

\* an onOrientation that adds the offsets
onOrientation_AddsOffset(sn, e) ==
  [sn EXCEPT !.latestBeta = OrZero(e.beta) + sn.bOff,
             !.latestGamma = OrZero(e.gamma) + sn.gOff]

onOrientation(sn, e) ==
  [sn EXCEPT !.latestBeta = OrZero(e.beta) - sn.bOff,
             !.latestGamma = OrZero(e.gamma) - sn.gOff]

\* e.acceleration?.z ?? e.accelerationIncludingGravity?.z ?? 0
AccOf(e) ==
  IF e.acceleration # Null THEN e.acceleration
  ELSE IF e.accelerationIncludingGravity # Null THEN e.accelerationIncludingGravity
  ELSE 0

\* onMotion at time t: the closure afterwards and the state given to callback
onMotion(sn, e, t) ==
  LET r  == BowUpdate(sn.bow, AccOf(e), t)
      sb == sn.smoothBeta + Quot(clamp(Quot(sn.latestBeta * 1000, 45), -1000, 1000)
                                   - sn.smoothBeta, 5)
      sg == sn.smoothGamma + Quot(clamp(Quot(sn.latestGamma * 1000, 45), -1000, 1000)
                                    - sn.smoothGamma, 5)
  IN [sens |-> [sn EXCEPT !.lastMotionTime = t, !.bow = r.bow,
                          !.smoothBeta = sb, !.smoothGamma = sg],
      state |-> [bowEnergy |-> r.energy, bowDirection |-> r.direction,
                 bowOnset |-> r.onset, beta |-> sb, gamma |-> sg]]

\* a watchdog state that zeroes the tilt along with the bow
WatchdogState_ZeroTilt(sn) ==
  [bowEnergy |-> 0, bowDirection |-> 1, bowOnset |-> FALSE, beta |-> 0, gamma |-> 0]

\* the state the watchdog gives to callback
WatchdogState(sn) ==
  [bowEnergy |-> 0, bowDirection |-> 1, bowOnset |-> FALSE,
   beta |-> sn.smoothBeta, gamma |-> sn.smoothGamma]

\* a cleanup that removes the two handlers and leaves the interval timer running
SensorsCleanup_KeepsWatchdog(sn) ==
  [sn EXCEPT !.orientationAttached = FALSE, !.motionAttached = FALSE,
             !.cleaned = TRUE]

\* the function listenSensors returns
SensorsCleanup(sn) ==
  [sn EXCEPT !.orientationAttached = FALSE, !.motionAttached = FALSE,
             !.watchdog = FALSE, !.cleaned = TRUE]

----------------------------------------------------------------------------
(* The sensor layer with its consumer: listenSensors, or listenMotion alone *)

MaxElapsed == 600         \* horizon of a run, from the creation of the listener
MaxSamples == 3           \* devicemotion events handled over one run

StartTimes == {0, 1000}                \* performance.now() at creation
SensorGaps == {8, 50, 120}             \* time between two devicemotion events
Accels == {-200, 200}                  \* acceleration.z of a devicemotion event
MotionSamples ==
  {[acceleration |-> a, accelerationIncludingGravity |-> Null] : a \in Accels}
TiltSamples == {[beta |-> 45, gamma |-> Null]}
PadSamples ==                          \* deviceorientation events in pad mode
  {[alpha |-> a, beta |-> 45, gamma |-> 45] : a \in {Null, 10, 100, 350}}
Calibrations == {[betaOffset |-> 0, gammaOffset |-> 0]}
InvertChoices == {FALSE}

\* listenSensors has been called
HasSensors == "bow" \in DOMAIN sens

\* the consumer's record of a callback at time t, with the marks it keeps:
\* when it last saw an onset, when the direction it is told last changed
Consume(src, state, t) ==
  [src |-> src, time |-> t, state |-> state,
   samples |-> IF src = "motion" THEN out.samples + 1 ELSE out.samples,
   onsetAt |-> IF src = "motion" /\ state.bowOnset THEN t ELSE out.onsetAt,
   reversalAt |-> IF src = "motion" /\ state.bowDirection # sens.bow.direction
                    THEN t ELSE out.reversalAt,
   reversalOnset |-> IF src = "motion" /\ state.bowDirection # sens.bow.direction
                       THEN state.bowOnset ELSE out.reversalOnset]

\* a test that takes a silence of exactly WatchdogSilence as too long
SilentTooLong_Inclusive(sn, t) == t - sn.lastMotionTime >= WatchdogSilence

\* the test of the watchdog at time t: performance.now() - lastMotionTime > 400
SilentTooLong(sn, t) == t - sn.lastMotionTime > WatchdogSilence

\* the platform dispatches a devicemotion event d ms after the latest event;
\* a timer that is due runs first
DeviceMotion(e, d) ==
  /\ HasSensors
  /\ now + d - sens.created <= MaxElapsed
  /\ sens.watchdog => now + d <= sens.nextTick
  /\ out.samples < MaxSamples
  /\ now' = now + d
  /\ IF sens.motionAttached
       THEN LET r == onMotion(sens, e, now + d)
            IN /\ sens' = r.sens
               /\ out' = Consume("motion", r.state, now + d)
       ELSE UNCHANGED <<sens, out>>
  /\ UNCHANGED <<engine, page, hs, listeners, delivered, call>>

\* the platform dispatches a deviceorientation event
SensorOrientation(e) ==
  /\ HasSensors
  /\ sens.orientationAttached
  /\ sens' = onOrientation(sens, e)
  /\ sens' # sens
  /\ UNCHANGED <<engine, page, hs, listeners, delivered, now, call, out>>

\* the interval timer fires when it is due
WatchdogTick ==
  /\ HasSensors
  /\ sens.nextTick - sens.created <= MaxElapsed
  /\ now' = sens.nextTick
  /\ IF ~sens.watchdog
       THEN /\ sens.nextTick > now
            /\ sens' = [sens EXCEPT !.nextTick = sens.nextTick + WatchdogPeriod]
            /\ UNCHANGED out
       ELSE IF SilentTooLong(sens, sens.nextTick)
         THEN /\ sens' = [sens EXCEPT !.bow = BowReset(sens.bow),
                                      !.nextTick = sens.nextTick + WatchdogPeriod]
              /\ out' = Consume("watchdog", WatchdogState(sens), sens.nextTick)
         ELSE /\ sens' = [sens EXCEPT !.nextTick = sens.nextTick + WatchdogPeriod]
              /\ UNCHANGED out
  /\ UNCHANGED <<engine, page, hs, listeners, delivered, call>>

\* the owner calls the function listenSensors returned
CallSensorsCleanup ==
  /\ HasSensors /\ ~sens.cleaned
  /\ sens' = SensorsCleanup(sens)
  /\ UNCHANGED <<engine, page, hs, listeners, delivered, now, call, out>>

\* pad mode: a deviceorientation event d ms after the latest one
PadOrientation(ev, d) ==
  /\ Len(listeners) = 1
  /\ now + d <= MaxNow
  /\ now' = now + d
  /\ IF listeners[1].attached /\ MotionHandler(listeners[1], ev, now + d).called
       THEN LET l == MotionHandler(listeners[1], ev, now + d).l
            IN /\ listeners' = <<l>>
               /\ out' = [out EXCEPT !.src = "pad", !.time = now + d,
                                     !.state = [alpha |-> l.smoothAlpha,
                                                beta |-> l.smoothBeta,
                                                gamma |-> l.smoothGamma]]
       ELSE UNCHANGED <<listeners, out>>
  /\ UNCHANGED <<engine, page, hs, delivered, call, sens>>

\* the owner calls the function listenMotion returned
CallMotionCleanup ==
  /\ Len(listeners) = 1 /\ listeners[1].attached
  /\ listeners' = MotionCleanup(listeners, 1)
  /\ UNCHANGED <<engine, page, hs, delivered, now, call, sens, out>>

NoCallback ==
  [src |-> "none", time |-> 0, state |-> [bowOnset |-> FALSE], samples |-> 0,
   onsetAt |-> Null, reversalAt |-> Null, reversalOnset |-> FALSE]

InitSensors ==
  /\ engine = NewAudioEngine
  /\ page = [mounted |-> FALSE]
  /\ hs = <<>>
  /\ delivered = 0
  /\ call = Called("none", 0)
  /\ out = NoCallback
  /\ \/ /\ listeners = <<>>
        /\ now \in StartTimes
        /\ \E c \in Calibrations, inv \in InvertChoices :
             sens = NewSensors(c, inv, now)
     \/ /\ listeners = <<NewMotionListener>>
        /\ now = 0
        /\ sens = NoSens

NextSensors ==
  \/ \E e \in MotionSamples, d \in SensorGaps : DeviceMotion(e, d)
  \/ \E e \in TiltSamples : SensorOrientation(e)
  \/ WatchdogTick
  \/ CallSensorsCleanup
  \/ \E ev \in PadSamples, d \in EventGaps : PadOrientation(ev, d)
  \/ CallMotionCleanup

SpecSensors == InitSensors /\ [][NextSensors]_vars

----------------------------------------------------------------------------
(* The sensor layer under events with null fields *)

NullFieldGaps == {50}              \* time between two devicemotion events

\* devicemotion events: acceleration.z and accelerationIncludingGravity.z,
\* each present or missing
NullableMotion ==
  { [acceleration |-> Null, accelerationIncludingGravity |-> -200],
    [acceleration |-> Null, accelerationIncludingGravity |-> Null],
    [acceleration |-> 200, accelerationIncludingGravity |-> -200] }

\* deviceorientation events in bowed mode: beta and gamma, each a number or null
NullableTilt == { [beta |-> Null, gamma |-> -30], [beta |-> 45, gamma |-> Null] }

\* deviceorientation events in pad mode: alpha, beta and gamma, each a number or null
NullablePad ==
  { [alpha |-> 90, beta |-> 45, gamma |-> Null],
    [alpha |-> Null, beta |-> Null, gamma |-> -30] }

InitNullFields ==
  /\ engine = NewAudioEngine
  /\ page = [mounted |-> FALSE]
  /\ hs = <<>>
  /\ delivered = 0
  /\ call = Called("none", 0)
  /\ out = NoCallback
  /\ now = 0
  /\ \/ /\ listeners = <<>>
        /\ \E c \in Calibrations : sens = NewSensors(c, FALSE, now)
     \/ /\ listeners = <<NewMotionListener>>
        /\ sens = NoSens

NextNullFields ==
  \/ \E e \in NullableMotion, d \in NullFieldGaps : DeviceMotion(e, d)
  \/ \E e \in NullableTilt : SensorOrientation(e)
  \/ WatchdogTick
  \/ \E ev \in NullablePad : PadOrientation(ev, THROTTLE_MS)

SpecNullFields == InitNullFields /\ [][NextNullFields]_vars

----------------------------------------------------------------------------
(* The sensor stream that stops and comes back *)

SilenceAccels == {-200, 20, 200}   \* acceleration.z: two strokes and a faint move
SilenceSamples ==
  {[acceleration |-> a, accelerationIncludingGravity |-> Null] : a \in SilenceAccels}
ResumeGaps == {8, 50}              \* time from the forced state to the next event

\* the stream comes back: the platform dispatches a devicemotion event d ms
\* after the watchdog gave its forced state
ResumedMotion(e, d) ==
  /\ HasSensors /\ sens.motionAttached
  /\ out.src = "watchdog"
  /\ sens.watchdog => now + d <= sens.nextTick
  /\ now' = now + d
  /\ LET r == onMotion(sens, e, now + d)
     IN /\ sens' = r.sens
        /\ out' = Consume("motion", r.state, now + d)
  /\ UNCHANGED <<engine, page, hs, listeners, delivered, call>>

InitSilence ==
  /\ engine = NewAudioEngine
  /\ page = [mounted |-> FALSE]
  /\ hs = <<>>
  /\ listeners = <<>>
  /\ delivered = 0
  /\ call = Called("none", 0)
  /\ out = NoCallback
  /\ now = 0
  /\ \E c \in Calibrations, inv \in InvertChoices : sens = NewSensors(c, inv, now)

NextSilence ==
  \/ \E e \in SilenceSamples, d \in SensorGaps : DeviceMotion(e, d)
  \/ WatchdogTick
  \/ \E e \in SilenceSamples, d \in ResumeGaps : ResumedMotion(e, d)

SpecSilence == InitSilence /\ [][NextSilence]_vars

----------------------------------------------------------------------------
(* The estimator under an acceleration that is held *)

PriorSamples == 1                  \* devicemotion events before the acceleration is held
MaxHeld == 8                       \* events under the held acceleration the consumer counts
FRAME_MS == 16                     \* the period of the events while it is held
SustainedAccels == {5, 200}        \* the acceleration.z that is held

\* The code uses performance.now() in differences only, so the clock of a long
\* run is read from an origin that moves forward by whole watchdog periods:
\* the closure with every time it holds moved back by k, n being the new now.
\* An onset older than the minimum gap stays older than it.
Rebased(sn, k, n) ==
  IF k = 0 THEN sn
  ELSE [sn EXCEPT !.nextTick = @ - k,
                  !.lastMotionTime = @ - k,
                  !.bow.lastTime = @ - k,
                  !.bow.lastOnsetTime = Max(@ - k, n - MIN_ONSET_GAP_MS - 1)]

\* the consumer's record moved back by k: a mark that falls before the
\* creation time is forgotten; the count of samples stops at its bound
RebasedOut(o, k, created) ==
  LET mark(m) == IF m = Null \/ k = 0 THEN m
                 ELSE IF m - k < created THEN Null ELSE m - k
  IN [o EXCEPT !.time = @ - k,
               !.onsetAt = mark(@),
               !.reversalAt = mark(@),
               !.samples = Min(@, PriorSamples + MaxHeld)]

\* a devicemotion event with the held acceleration, one frame after the latest
\* event; a timer that is due runs first
SustainedMotion ==
  /\ HasSensors /\ call.op = "sustain"
  /\ out.samples >= PriorSamples
  /\ sens.watchdog => now + FRAME_MS <= sens.nextTick
  /\ sens.motionAttached
  /\ LET t == now + FRAME_MS
         e == [acceleration |-> call.n, accelerationIncludingGravity |-> Null]
         r == onMotion(sens, e, t)
         k == IF t - sens.created >= 2 * WatchdogPeriod THEN WatchdogPeriod ELSE 0
     IN /\ now' = t - k
        /\ sens' = Rebased(r.sens, k, t - k)
        /\ out' = RebasedOut(Consume("motion", r.state, t), k, sens.created)
  /\ UNCHANGED <<engine, page, hs, listeners, delivered, call>>

InitSustained ==
  /\ engine = NewAudioEngine
  /\ page = [mounted |-> FALSE]
  /\ hs = <<>>
  /\ listeners = <<>>
  /\ delivered = 0
  /\ out = NoCallback
  /\ now = 0
  /\ \E a \in SustainedAccels : call = [op |-> "sustain", n |-> a]
  /\ \E c \in Calibrations, inv \in InvertChoices : sens = NewSensors(c, inv, now)

NextSustained ==
  \/ \E e \in MotionSamples, d \in SensorGaps :
       out.samples < PriorSamples /\ DeviceMotion(e, d)
  \/ SustainedMotion
  \/ HasSensors /\ now + FRAME_MS > sens.nextTick /\ WatchdogTick

\* the platform keeps delivering events and running timers
SpecSustained == InitSustained /\ [][NextSustained]_vars /\ WF_vars(NextSustained)

----------------------------------------------------------------------------
(* captureCalibration *)

CAPTURE_TIMEOUT_MS == 500     \* the delay of the fallback timer

ZeroCalibration == [betaOffset |-> 0, gammaOffset |-> 0]

\* the Promise and the closure when captureCalibration returns at time t: the
\* handler registered, the timer pending, nothing resolved
NewCapture(t) ==
  [created |-> t, handler |-> TRUE, timer |-> TRUE, settled |-> FALSE,
   result |-> [betaOffset |-> Null, gammaOffset |-> Null]]

\* resolve(value) of the Promise: only the first call settles it
Resolve(c, value) ==
  IF c.settled THEN c ELSE [c EXCEPT !.settled = TRUE, !.result = value]

\* { betaOffset: e.beta ?? 0, gammaOffset: e.gamma ?? 0 }
CalibrationOf(e) == [betaOffset |-> OrZero(e.beta), gammaOffset |-> OrZero(e.gamma)]

\* a handler that resolves and stays registered
CaptureHandler_KeepsListener(c, e) == Resolve(c, CalibrationOf(e))

\* the temporary deviceorientation handler
CaptureHandler(c, e) == Resolve([c EXCEPT !.handler = FALSE], CalibrationOf(e))

\* the callback of setTimeout
CaptureTimeout(c) ==
  Resolve([c EXCEPT !.handler = FALSE, !.timer = FALSE], ZeroCalibration)

----------------------------------------------------------------------------
(* Calibration: captureCalibration, then listenSensors with what it resolved *)

CalibrationGaps == {100, 250}      \* time between two events of a calibrated run
RawReadings ==                     \* raw deviceorientation readings
  {[beta |-> 45, gamma |-> Null], [beta |-> -30, gamma |-> 20]}

\* a pending timer runs before an event that comes after its due time
TimersAllow(t) ==
  /\ sens.capture.timer => t <= sens.capture.created + CAPTURE_TIMEOUT_MS
  /\ (HasSensors /\ sens.watchdog) => t <= sens.nextTick

\* the platform dispatches a deviceorientation event d ms after the latest
\* event, to the temporary handler and to onOrientation as far as registered;
\* fed counts the events onOrientation handled, strayed tells whether one of
\* them was not the reading the calibration is the capture of
CalibrationOrientation(e, d) ==
  /\ "capture" \in DOMAIN sens
  /\ now + d - (IF HasSensors THEN sens.created ELSE sens.capture.created) <= MaxElapsed
  /\ TimersAllow(now + d)
  /\ now' = now + d
  /\ LET c  == IF sens.capture.handler THEN CaptureHandler(sens.capture, e)
                                       ELSE sens.capture
         sn == IF HasSensors /\ sens.orientationAttached
                 THEN [onOrientation(sens, e) EXCEPT
                         !.fed = @ + 1,
                         !.strayed = @ \/ CalibrationOf(e) #
                                            [betaOffset |-> sens.bOff,
                                             gammaOffset |-> sens.gOff]]
                 ELSE sens
     IN sens' = [sn EXCEPT !.capture = c]
  /\ UNCHANGED <<engine, page, hs, listeners, delivered, call, out>>

\* the fallback timer of captureCalibration fires
CaptureTimerFires ==
  /\ "capture" \in DOMAIN sens
  /\ sens.capture.timer
  /\ (HasSensors /\ sens.watchdog) =>
        sens.capture.created + CAPTURE_TIMEOUT_MS <= sens.nextTick
  /\ now' = sens.capture.created + CAPTURE_TIMEOUT_MS
  /\ sens' = [sens EXCEPT !.capture = CaptureTimeout(sens.capture)]
  /\ UNCHANGED <<engine, page, hs, listeners, delivered, call, out>>

\* the caller, resumed with the calibration, passes it to listenSensors
StartListening ==
  /\ "capture" \in DOMAIN sens /\ ~HasSensors
  /\ sens.capture.settled
  /\ \E inv \in InvertChoices :
       sens' = [capture |-> sens.capture, fed |-> 0, strayed |-> FALSE]
                 @@ NewSensors(sens.capture.result, inv, now)
  /\ UNCHANGED <<engine, page, hs, listeners, delivered, now, call, out>>

InitCalibration ==
  /\ engine = NewAudioEngine
  /\ page = [mounted |-> FALSE]
  /\ hs = <<>>
  /\ listeners = <<>>
  /\ delivered = 0
  /\ call = Called("none", 0)
  /\ out = NoCallback
  /\ now = 0
  /\ sens = [capture |-> NewCapture(0)]

NextCalibration ==
  \/ \E e \in RawReadings, d \in CalibrationGaps : CalibrationOrientation(e, d)
  \/ CaptureTimerFires
  \/ StartListening
  \/ \E e \in MotionSamples, d \in CalibrationGaps :
       TimersAllow(now + d) /\ DeviceMotion(e, d)
  \/ HasSensors /\ TimersAllow(sens.nextTick) /\ WatchdogTick

SpecCalibration == InitCalibration /\ [][NextCalibration]_vars

----------------------------------------------------------------------------
(* ViolinEngine (monophonic bowed mode) *)

\* An AudioParam with its automation: target is the value the latest event
\* that has taken effect holds the parameter at (setValueAtTime) or moves it
\* to (setTargetAtTime); pending are the setTargetAtTime events scheduled
\* ahead, in the order of their times.  Gains are in 1/100000, frequencies in
\* Hz, cents in 1/1000.
NewParam(v) == [target |-> v, pending |-> <<>>]

\* param.setValueAtTime(v, t) with t the current time
setValueAtTime(p, v) == [p EXCEPT !.target = v]

\* param.setTargetAtTime(target, at, timeConstant) called at time t
setTargetAtTime(p, target, at, t) ==
  IF at <= t THEN [p EXCEPT !.target = target]
  ELSE LET before == SelectSeq(p.pending, LAMBDA ev : ev.at <= at)
           after  == SelectSeq(p.pending, LAMBDA ev : ev.at > at)
       IN [p EXCEPT !.pending = before \o <<[at |-> at, target |-> target]>> \o after]

\* param.cancelScheduledValues(t) with t the current time
cancelScheduledValues(p, t) ==
  [p EXCEPT !.pending = SelectSeq(p.pending, LAMBDA ev : ev.at < t)]

\* the parameter when the audio clock has reached t: the events that are due
\* have taken effect
RECURSIVE Elapse(_, _)
Elapse(p, t) ==
  IF p.pending # <<>> /\ p.pending[1].at <= t
    THEN Elapse([target |-> p.pending[1].target, pending |-> Tail(p.pending)], t)
    ELSE p

\* what reading param.value gives: the parameter is taken to have got where
\* its latest event sends it
ValueOf(p) == p.target

\* Math.pow(energy, 0.6) in 1/1000, at energy = k/4
CurveTable == <<0, 435, 660, 842, 1000>>

Curved(energy) ==
  LET k == energy \div 250
      r == energy % 250
  IN IF k >= 4 THEN CurveTable[5]
     ELSE CurveTable[k + 1] + ((CurveTable[k + 2] - CurveTable[k + 1]) * r) \div 250

\* midiToHz, rounded to Hz, for the notes of SCALE_MIDI the model plays
midiToHz(midi) == CASE midi = 64 -> 330 [] midi = 69 -> 440 [] OTHER -> 440

\* the sources start() creates: oscSaw, oscTri, noiseSource, lfo
SOURCES_PER_GRAPH == 4

\* new ViolinEngine(): sources counts the oscillators and the noise source
\* created, stopped those that were stopped
NewViolinEngine ==
  [ctx |-> 0, graphs |-> 0, started |-> FALSE, gateOpen |-> FALSE, bowEnergy |-> 0,
   bowDir |-> 1, brightness |-> 500, currentMidi |-> 64,
   sources |-> 0, stopped |-> 0,
   oscHz |-> NewParam(0), noiseBP |-> NewParam(0), bodyGain |-> NewParam(0),
   noiseGain |-> NewParam(0), filterFreq |-> NewParam(0), lfoGain |-> NewParam(0)]

\* ViolinEngine.start() up to its await: the context, the four sources (two
\* oscillators, the noise, the LFO) created and started, the graph wired
violinStartBuild(e) ==
  [e EXCEPT !.ctx = e.graphs + 1, !.graphs = e.graphs + 1,
            !.sources = e.sources + SOURCES_PER_GRAPH,
            !.oscHz = NewParam(midiToHz(e.currentMidi)),
            !.noiseBP = NewParam(2000),
            !.noiseGain = NewParam(0),
            !.bodyGain = NewParam(0),
            !.filterFreq = NewParam(800),
            !.lfoGain = NewParam(0)]

\* ViolinEngine.start() after ctx.resume() has resolved
violinStartResumed(e) == [e EXCEPT !.started = TRUE]

\* an updateLevels that follows the bow energy whatever the gate
updateLevels_IgnoresGate(e, t) ==
  IF e.ctx = 0 THEN e
  ELSE LET curved == Curved(e.bowEnergy)
       IN [e EXCEPT !.bodyGain = setTargetAtTime(@, 5000 + curved * 55, t, t),
                    !.noiseGain = setTargetAtTime(@, (curved * curved * 25) \div 1000, t, t)]

\* updateLevels() at time t
updateLevels(e, t) ==
  IF e.ctx = 0 THEN e
  ELSE IF e.gateOpen
    THEN LET curved == Curved(e.bowEnergy)
         IN [e EXCEPT !.bodyGain = setTargetAtTime(@, 5000 + curved * 55, t, t),
                      !.noiseGain = setTargetAtTime(@, (curved * curved * 25) \div 1000, t, t)]
    ELSE [e EXCEPT !.bodyGain = setTargetAtTime(@, 0, t, t),
                   !.noiseGain = setTargetAtTime(@, 0, t, t)]

\* updateFilter() at time t
updateFilter(e, t) ==
  IF e.ctx = 0 THEN e
  ELSE LET inner  == 600 + (e.bowEnergy * 55 + e.brightness * 45) \div 20
           cutoff == IF e.bowDir > 0 THEN (inner * 112) \div 100 ELSE (inner * 90) \div 100
       IN [e EXCEPT !.filterFreq = setTargetAtTime(@, Min(cutoff, 12000), t, t)]

setGate(e, on, t) == updateLevels([e EXCEPT !.gateOpen = on], t)

setPitch(e, midi, t) ==
  IF e.ctx = 0 THEN e
  ELSE [e EXCEPT !.currentMidi = midi,
                 !.oscHz = setTargetAtTime(@, midiToHz(midi), t, t),
                 !.noiseBP = setTargetAtTime(@, Min(midiToHz(midi) * 3, 8000), t, t)]

setBow(e, energy, direction, t) ==
  updateFilter(updateLevels([e EXCEPT !.bowEnergy = energy, !.bowDir = direction], t), t)

\* the delay after which triggerOnset lets a parameter return to its level
ONSET_RETURN_MS == 10

triggerOnset(e, t) ==
  IF e.ctx = 0 \/ ~e.gateOpen THEN e
  ELSE LET cur  == Max(ValueOf(e.bodyGain), 100)
           curF == ValueOf(e.filterFreq)
           curN == Max(ValueOf(e.noiseGain), 100)
       IN [e EXCEPT
             !.bodyGain =
                setTargetAtTime(setValueAtTime(cancelScheduledValues(@, t), (cur * 3) \div 2),
                                cur, t + ONSET_RETURN_MS, t),
             !.filterFreq =
                setTargetAtTime(setValueAtTime(cancelScheduledValues(@, t), curF + 900),
                                curF, t + ONSET_RETURN_MS, t),
             !.noiseGain =
                setTargetAtTime(setValueAtTime(cancelScheduledValues(@, t),
                                               Min(curN * 3, 50000)),
                                curN, t + ONSET_RETURN_MS, t)]

setBrightness(e, v, t) == updateFilter([e EXCEPT !.brightness = Max(0, Min(1000, v))], t)

setVibratoDepth(e, v, t) ==
  IF e.ctx = 0 THEN e
  ELSE [e EXCEPT !.lfoGain = setTargetAtTime(@, Abs(v) * 40, t, t)]

violinAllOff(e, t) == updateLevels([e EXCEPT !.gateOpen = FALSE, !.bowEnergy = 0], t)

----------------------------------------------------------------------------
(* The started ViolinEngine under its caller, on the audio clock *)

MaxTicks == 3                           \* steps of the audio clock over one run
MaxOnsets == 1                          \* calls of triggerOnset over one run
TICK_MS == 5                            \* the length of one step, in ms
BowStates == {<<500, -1>>, <<1000, 1>>} \* bow energy in 1/1000, with its direction
GateKeys == {69}                        \* the note the caller moves to
Brightnesses == {1500}                  \* values given to setBrightness
VibratoDepths == {-500}                 \* values given to setVibratoDepth

\* a call of a public method of the engine at the current time
ViolinCall(op, arg, e2) ==
  /\ engine' = e2
  /\ call' = [op |-> op, n |-> arg]
  /\ UNCHANGED <<page, hs, listeners, delivered, now, sens, out>>

SetGate(on) == ViolinCall("setGate", on, setGate(engine, on, now))

SetPitch(midi) == ViolinCall("setPitch", midi, setPitch(engine, midi, now))

SetBow(energy, direction) ==
  ViolinCall("setBow", energy, setBow(engine, energy, direction, now))

\* delivered counts the onsets the caller has triggered
TriggerOnset ==
  /\ delivered < MaxOnsets
  /\ engine' = triggerOnset(engine, now)
  /\ delivered' = delivered + 1
  /\ call' = [op |-> "triggerOnset", n |-> 0]
  /\ UNCHANGED <<page, hs, listeners, now, sens, out>>

SetBrightness(v) == ViolinCall("setBrightness", v, setBrightness(engine, v, now))

SetVibratoDepth(v) == ViolinCall("setVibratoDepth", v, setVibratoDepth(engine, v, now))

ViolinAllOff == ViolinCall("allOff", 0, violinAllOff(engine, now))

\* the audio clock moves on by d ms
ClockAdvances(d) ==
  /\ now + d <= MaxTicks * TICK_MS
  /\ now' = now + d
  /\ engine' = [engine EXCEPT !.oscHz = Elapse(@, now + d),
                              !.noiseBP = Elapse(@, now + d),
                              !.bodyGain = Elapse(@, now + d),
                              !.noiseGain = Elapse(@, now + d),
                              !.filterFreq = Elapse(@, now + d),
                              !.lfoGain = Elapse(@, now + d)]
  /\ call' = [op |-> "clock", n |-> d]
  /\ UNCHANGED <<page, hs, listeners, delivered, sens, out>>

\* the engine when start() has resolved
InitViolin ==
  /\ engine = violinStartResumed(violinStartBuild(NewViolinEngine))
  /\ page = [mounted |-> FALSE]
  /\ hs = <<>>
  /\ listeners = <<>>
  /\ delivered = 0
  /\ now = 0
  /\ call = Called("none", 0)
  /\ sens = NoSens
  /\ out = NoOut

NextViolin ==
  \/ \E on \in BOOLEAN : SetGate(on)
  \/ \E midi \in GateKeys : SetPitch(midi)
  \/ \E b \in BowStates : SetBow(b[1], b[2])
  \/ TriggerOnset
  \/ \E v \in Brightnesses : SetBrightness(v)
  \/ \E v \in VibratoDepths : SetVibratoDepth(v)
  \/ ViolinAllOff
  \/ ClockAdvances(TICK_MS)

SpecViolin == InitViolin /\ [][NextViolin]_vars

----------------------------------------------------------------------------
(* Voice table *)

\* the table entries of one pitch key
TableEntries(e, midi) == {i \in 1..Len(e.voices) : e.voices[i][1] = midi}

\* the oscillator pairs of one pitch that were started and never released
HeldPairs(e, midi) ==
  {i \in 1..Len(e.nodes) : e.nodes[i].midi = midi /\ e.nodes[i].state = "playing"}

\* C1: the voice table holds at most one voice per pitch key, so that at most
\* one oscillator pair per pitch is held; a noteOn for a pitch that already has
\* a voice creates no voice and changes nothing in the engine.
C1_OneVoicePerPitch ==
  /\ [](\A m \in MidiKeys : /\ Cardinality(TableEntries(engine, m)) <= 1
                            /\ Cardinality(HeldPairs(engine, m)) <= 1)
  /\ [][\A m \in MidiKeys : (NoteOn(m) /\ HasVoice(engine, m)) => engine' = engine]_vars

\* a started engine has just received noteOn for a pitch that was sounding,
\* while another pitch sounds as well
C1_Witness ==
  /\ engine.started
  /\ call = Called("noteOn", 1)
  /\ Len(engine.voices) = 2

\* C2: noteOff for a pitch without an active voice changes nothing: the voice
\* table, the oscillators, waveBlend, the mappings and started stay as they
\* were, started or not.
C2_NoteOffUnknownIsNoOp ==
  [][\A m \in MidiKeys : (NoteOff(m) /\ ~HasVoice(engine, m)) => engine' = engine]_vars

\* noteOff for a silent pitch has just been called while another pitch sounds
C2_Witness ==
  /\ call = Called("noteOff", 0)
  /\ Len(engine.voices) = 1
  /\ engine.started

\* C3: when allOff returns the voice table is empty and every voice that was
\* in it has had its release scheduled; the other oscillators are untouched.
C3_AllOffSilencesAll ==
  [][AllOff =>
       /\ engine'.voices = <<>>
       /\ \A i \in 1..Len(engine.nodes) :
            IF \E j \in 1..Len(engine.voices) : engine.voices[j][2] = i
              THEN engine'.nodes[i].state = "releasing"
              ELSE engine'.nodes[i] = engine.nodes[i]]_vars

\* allOff has just returned after being called with two active voices
C3_Witness ==
  /\ call = Called("allOff", 2)
  /\ engine.voices = <<>>
  /\ Cardinality({i \in 1..Len(engine.nodes) : engine.nodes[i].state = "releasing"}) >= 2

\* a start() of this engine has failed and none has succeeded
AudioInitFailed ==
  /\ ~engine.started
  /\ \E i \in 1..Len(hs) : hs[i].pc = "rejected"
  /\ \A i \in 1..Len(hs) : hs[i].pc # "awaitResume"

\* C6: after a failed start (no context constructed, or resume rejected) the
\* engine is not started and noteOn, noteOff, allOff and setMotion change
\* nothing in it.
C6_FailedStartMakesCallsNoOps ==
  [][(/\ AudioInitFailed
      /\ \/ \E m \in MidiKeys : NoteOn(m) \/ NoteOff(m)
         \/ AllOff
         \/ \E v \in ControlValues : SetMotion(v, v, v))
       => engine' = engine]_vars

----------------------------------------------------------------------------
(* Start sequence and teardown of Home *)

\* C5: when the component is torn down while a handleStart is still awaiting,
\* no listener is attached afterwards.
C5_NoListenerAfterTeardownDuringStart ==
  (~page.mounted /\ page.startsAtTeardown > 0) =>
     \A i \in 1..Len(listeners) : ~listeners[i].attached

\* C7 as stated: the start sequence attaches a listener exactly when the
\* permission outcome is granted or not-needed; on denied or no-sensor it
\* attaches none, reports a status other than "active", and the engine is
\* started.
C7_ListenerIffPermitted ==
  [][\A i \in 1..MaxStarts :
       HandleStartContinue(i) =>
         /\ (Len(listeners') = Len(listeners) + 1)
              <=> hs[i].permResult \in {"granted", "not-needed"}
         /\ hs[i].permResult \in {"denied", "no-sensor"} =>
              /\ listeners' = listeners
              /\ page'.motionStatus # "active"
              /\ engine.started]_vars

\* C7 amended: when engine.start() has resolved, handleStart attaches a
\* listener exactly when the permission outcome is granted or not-needed; on
\* denied or no-sensor it attaches none, reports a status other than "active",
\* and the engine is started, so that noteOn creates a voice and noteOff
\* releases it.  When engine.start() has failed no listener is attached and the
\* status is "error", whatever the outcome.
C7_ListenerIffPermittedWhenAudioStarts ==
  [][\A i \in 1..MaxStarts :
       HandleStartContinue(i) =>
         IF hs[i].pc = "afterStart"
           THEN /\ (Len(listeners') = Len(listeners) + 1)
                     <=> hs[i].permResult \in {"granted", "not-needed"}
                /\ hs[i].permResult \in {"denied", "no-sensor"} =>
                     /\ listeners' = listeners
                     /\ page'.motionStatus \in {"denied", "unavailable"}
                /\ engine'.started
                /\ \A m \in PadKeys :
                     LET on == noteOn(noteOff(engine', m), m)
                     IN /\ HasVoice(on, m)
                        /\ on.nodes[GetVoice(on, m)].state = "playing"
                        /\ ~HasVoice(noteOff(on, m), m)
                        /\ noteOff(on, m).nodes[GetVoice(on, m)].state = "releasing"
           ELSE /\ listeners' = listeners
                /\ page'.motionStatus = "error"]_vars

\* permission was denied, the engine started without a listener, and a pad has
\* been pressed and sounds
C7_Witness ==
  /\ page.motionStatus = "denied"
  /\ engine.started
  /\ listeners = <<>>
  /\ \A i \in 1..Len(hs) : hs[i].pc = "done"
  /\ call = Called("noteOn", 0)
  /\ Len(engine.voices) = 1

----------------------------------------------------------------------------
(* Sensor layer *)

\* C4: once the cleanup function has been called both handlers and the timer
\* are detached, and no later orientation event, motion event or watchdog tick
\* gives the consumer anything: listenSensors and listenMotion alike.
C4_NoCallbackAfterCleanup ==
  /\ []((HasSensors /\ sens.cleaned) =>
          ~sens.orientationAttached /\ ~sens.motionAttached /\ ~sens.watchdog)
  /\ [][(HasSensors /\ sens.cleaned) => (out' = out /\ sens'.bow = sens.bow)]_vars
  /\ [][(Len(listeners) = 1 /\ ~listeners[1].attached) =>
          (out' = out /\ listeners' = listeners)]_vars

\* the cleanup of listenSensors was called after a motion callback, and the
\* silence has since outlasted the watchdog's threshold past a tick of its timer
C4_Witness ==
  /\ HasSensors /\ sens.cleaned
  /\ out.src = "motion"
  /\ now - sens.lastMotionTime > WatchdogSilence
  /\ now - sens.created >= 3 * WatchdogPeriod

\* the sign update() takes for a velocity
SignOf(velocity) == IF velocity >= 0 THEN 1 ELSE -1

\* this step is a call of onMotion
MotionStep == HasSensors /\ out'.samples = out.samples + 1

\* C8: two onsets given to the consumer are more than 120 ms apart; a reversal
\* less than 120 ms after a reversal that gave an onset gives none.
C8_OnsetsAreSpaced ==
  [][MotionStep =>
       /\ (out'.state.bowOnset /\ out.onsetAt # Null) =>
             out'.time - out.onsetAt > MIN_ONSET_GAP_MS
       /\ (/\ sens'.bow.direction # sens.bow.direction
           /\ out.reversalAt # Null /\ out.reversalOnset
           /\ out'.time - out.reversalAt < MIN_ONSET_GAP_MS) =>
             ~out'.state.bowOnset]_vars

\* the direction has just reversed 50 ms after a reversal that gave an onset,
\* and the consumer was given no second onset
C8_Witness ==
  /\ HasSensors /\ out.src = "motion"
  /\ out.reversalAt = out.time
  /\ out.onsetAt # Null /\ out.time - out.onsetAt = 50
  /\ ~out.state.bowOnset

\* the hysteresis condition of this step, from what the consumer is given
FlipCondition ==
  /\ SignOf(sens'.bow.velocity) # sens.bow.direction
  /\ out'.state.bowEnergy > Hysteresis

\* C9 as stated: onset is true exactly when the direction flips under the
\* hysteresis condition and at least 120 ms have passed since the last onset;
\* a flip with no onset before it gives an onset.
C9_OnsetExactlyWhenFlipAndGap ==
  [][MotionStep =>
       (out'.state.bowOnset <=>
          /\ FlipCondition
          /\ \/ out.onsetAt = Null
             \/ out'.time - out.onsetAt >= MIN_ONSET_GAP_MS)]_vars

\* C9 amended: onset is true exactly when the direction flips under the
\* hysteresis condition and more than 120 ms have passed since the last
\* onset, or since time 0 of performance.now() when there has been none.
C9_OnsetExactlyWhenFlipAndMoreThanGap ==
  [][MotionStep =>
       (out'.state.bowOnset <=>
          /\ FlipCondition
          /\ out'.time - (IF out.onsetAt = Null THEN 0 ELSE out.onsetAt)
               > MIN_ONSET_GAP_MS)]_vars

\* the direction has just flipped exactly 120 ms after the last onset, and
\* the consumer was given no onset
C9_Witness ==
  /\ HasSensors /\ out.src = "motion"
  /\ out.reversalAt = out.time
  /\ out.state.bowEnergy > Hysteresis
  /\ out.onsetAt # Null /\ out.time - out.onsetAt = MIN_ONSET_GAP_MS
  /\ ~out.state.bowOnset

\* C10: the held direction changes only in an update whose velocity has the
\* other sign and whose energy exceeds 0.12; an update with energy at most
\* 0.12, and the watchdog's reset, leave it as it is.
C10_DirectionIsSticky ==
  [][(HasSensors /\ sens'.bow.direction # sens.bow.direction) =>
       /\ MotionStep
       /\ out'.state.bowEnergy > Hysteresis
       /\ sens'.bow.direction = SignOf(sens'.bow.velocity)
       /\ out'.state.bowDirection = sens'.bow.direction]_vars

\* an update has left the velocity with the sign opposite to the held
\* direction, at an energy of at most 0.12, and the direction was kept
C10_Witness ==
  /\ HasSensors /\ out.src = "motion"
  /\ SignOf(sens.bow.velocity) # sens.bow.direction
  /\ out.state.bowEnergy <= Hysteresis
  /\ out.state.bowDirection = sens.bow.direction

\* the interval timer runs its callback in this step, at its due time
TimerStep ==
  /\ HasSensors /\ sens.watchdog
  /\ now' = sens.nextTick
  /\ sens'.nextTick = sens.nextTick + WatchdogPeriod

\* C11: at every run of the watchdog timer that finds more than 400 ms since
\* the latest acceleration sample (or since the listener was attached), the
\* consumer is given energy 0, direction +1 and onset false, whatever the
\* velocity was, and the velocity is reset to 0; so whenever the silence has
\* lasted more than 400 ms at the latest run of the timer, the forced state
\* is what the consumer last received.
C11_WatchdogForcesSilence ==
  /\ [][(TimerStep /\ sens.nextTick - sens.lastMotionTime > WatchdogSilence) =>
          /\ out'.src = "watchdog" /\ out'.time = now'
          /\ out'.state.bowEnergy = 0
          /\ out'.state.bowDirection = 1
          /\ out'.state.bowOnset = FALSE
          /\ sens'.bow.velocity = 0]_vars
  /\ []((/\ HasSensors /\ sens.watchdog
         /\ sens.nextTick - WatchdogPeriod - sens.lastMotionTime > WatchdogSilence) =>
          /\ out.src = "watchdog" /\ out.time = sens.nextTick - WatchdogPeriod
          /\ out.state.bowEnergy = 0 /\ out.state.bowDirection = 1
          /\ ~out.state.bowOnset
          /\ sens.bow.velocity = 0)

\* the watchdog has just forced silence on a processor that samples had driven
\* to the direction -1, at an energy above the hysteresis threshold
C11_Witness ==
  /\ HasSensors /\ out.src = "watchdog"
  /\ out.samples >= 1
  /\ sens.bow.direction = -1
  /\ sens.bow.velocity = 0
  /\ out.state.bowEnergy = 0 /\ out.state.bowDirection = 1

\* C12: a watchdog-forced update carries the smoothed beta and gamma as they
\* are and leaves them as they are; the smoothed tilt changes only in an
\* update made for an acceleration event.
C12_SilenceHoldsTilt ==
  [][HasSensors =>
       /\ (out' # out /\ out'.src = "watchdog") =>
             /\ out'.state.beta = sens.smoothBeta
             /\ out'.state.gamma = sens.smoothGamma
             /\ sens'.smoothBeta = sens.smoothBeta
             /\ sens'.smoothGamma = sens.smoothGamma
       /\ (sens'.smoothBeta # sens.smoothBeta \/ sens'.smoothGamma # sens.smoothGamma)
             => MotionStep]_vars

\* the watchdog has just forced silence while the smoothed tilt is away from
\* zero, and the consumer was given that tilt
C12_Witness ==
  /\ HasSensors /\ out.src = "watchdog"
  /\ sens.smoothBeta # 0
  /\ out.state.beta = sens.smoothBeta
  /\ out.state.bowEnergy = 0

----------------------------------------------------------------------------
(* Mapping rows *)

\* C13: after as many cycle actions in a row on one axis as its candidate list
\* has entries, the axis is bound to the target it had before the first of
\* them, in the component and in the engine.
C13_CycleWraps ==
  (call.op = "cycle" /\ call.n = Len(TargetsOf(call.axis))) =>
     /\ page.mappings[call.axis] = call.from
     /\ engine.mappings[call.axis] = call.from

\* the gamma axis has been cycled four times in a row starting from its
\* second candidate, and is bound to it again
C13_Witness ==
  /\ call.op = "cycle" /\ call.axis = "gamma"
  /\ call.n = Len(GAMMA_TARGETS)
  /\ call.from = GAMMA_TARGETS[2]
  /\ page.mappings.gamma = GAMMA_TARGETS[2]

\* the position of a target in a candidate list
PositionIn(list, x) == CHOOSE i \in 1..Len(list) : list[i] = x

\* C14: a cycle action on an axis binds it to the entry after its target in
\* its candidate list, the first entry after the last one, leaves the other
\* two axes as they were, and hands the same mappings to the engine.
C14_CycleAdvancesOneAxis ==
  [][\A axis \in Axes :
       CycleMapping(axis) =>
         LET list == TargetsOf(axis)
             i    == PositionIn(list, page.mappings[axis])
         IN /\ page'.mappings[axis] = list[IF i = Len(list) THEN 1 ELSE i + 1]
            /\ \A other \in Axes \ {axis} :
                 page'.mappings[other] = page.mappings[other]
            /\ engine'.mappings = page'.mappings]_vars

\* the alpha axis has just wrapped from its last candidate to its first while
\* the other two axes keep targets that are not their defaults
C14_Witness ==
  /\ call.op = "cycle" /\ call.axis = "alpha" /\ call.n = 1
  /\ call.from = ALPHA_TARGETS[Len(ALPHA_TARGETS)]
  /\ page.mappings.alpha = ALPHA_TARGETS[1]
  /\ page.mappings.beta = BETA_TARGETS[3]
  /\ page.mappings.gamma = GAMMA_TARGETS[4]
  /\ engine.mappings = page.mappings

\* the targets of a candidate list
Range(list) == {list[i] : i \in 1..Len(list)}

\* C15: every axis is bound to a member of its own candidate list and no two
\* axes are bound to the same target, in the component and in the engine, so
\* that the three controls of one motion update touch different parameters:
\* applying them in the opposite order gives the same engine.
C15_AxesDriveDistinctTargets ==
  /\ engine.mappings = page.mappings
  /\ \A axis \in Axes : engine.mappings[axis] \in Range(TargetsOf(axis))
  /\ \A a1, a2 \in Axes : a1 # a2 => engine.mappings[a1] # engine.mappings[a2]
  /\ \A a, b, g \in ControlValues :
       setMotion(engine, a, b, g) =
         applyControl(applyControl(applyControl(engine, engine.mappings.alpha, a),
                                   engine.mappings.gamma, g),
                      engine.mappings.beta, b)

\* a motion update has just been applied to a sounding voice with every axis
\* cycled away from its default target
C15_Witness ==
  /\ call = Called("setMotion", 1)
  /\ engine.mappings = [beta |-> "wave-blend", gamma |-> "reverb", alpha |-> "pitch-bend"]
  /\ engine.params.reverbWet > 0

----------------------------------------------------------------------------
(* Throttle *)

\* C16: two consecutive updates given to the consumer by a motion listener
\* are at least 16 ms apart, and a raw sample that arrives less than 16 ms
\* after the latest processed one is dropped: no update, the smoothed state
\* unchanged.  For listenMotion and for listenSensors alike.
C16_UpdatesAtLeast16msApart ==
  [][/\ (out.src # "none" /\ out' # out) => out'.time - out.time >= THROTTLE_MS
     /\ (Len(listeners) = 1 /\ now' # now /\ now' - listeners[1].last < THROTTLE_MS) =>
          (out' = out /\ listeners' = listeners)
     /\ (/\ HasSensors /\ now' # now /\ out.src = "motion"
         /\ now' - sens.lastMotionTime < THROTTLE_MS) =>
          /\ out' = out
          /\ sens'.smoothBeta = sens.smoothBeta
          /\ sens'.smoothGamma = sens.smoothGamma]_vars

\* the part of C16 that is about listenMotion
PadUpdatesAtLeast16msApart ==
  [][Len(listeners) = 1 =>
       /\ (out.src # "none" /\ out' # out) => out'.time - out.time >= THROTTLE_MS
       /\ (now' # now /\ now' - listeners[1].last < THROTTLE_MS) =>
            (out' = out /\ listeners' = listeners)]_vars

----------------------------------------------------------------------------
(* Calibration *)

\* C17: when listenSensors is given the calibration captured at a raw
\* reading and is fed that reading only, the smoothed beta and gamma are 0 at
\* every update, however many there are.
C17_CalibrationRoundTrip ==
  /\ []((HasSensors /\ ~sens.strayed) =>
          /\ sens.smoothBeta = 0 /\ sens.smoothGamma = 0
          /\ out.src # "none" => (out.state.beta = 0 /\ out.state.gamma = 0))
  /\ [][(MotionStep /\ ~sens.strayed) =>
          (out'.state.beta = 0 /\ out'.state.gamma = 0)]_vars

\* the calibration was captured at a reading away from zero on both axes, the
\* same reading has been fed twice since, and the third update gave zero tilt
C17_Witness ==
  /\ HasSensors /\ ~sens.strayed
  /\ sens.bOff # 0 /\ sens.gOff # 0
  /\ sens.fed >= 2
  /\ out.src = "motion" /\ out.samples = 3
  /\ out.state.beta = 0 /\ out.state.gamma = 0

\* C18: the Promise of captureCalibration settles once: by the first
\* orientation event when one comes within 500 ms, with its beta and gamma,
\* by the timer with zero offsets otherwise, and it has settled when 500 ms
\* have passed; the temporary handler is removed either way; what comes
\* after the Promise has settled (a later event, the timer) changes nothing.
C18_CaptureSettlesOnce ==
  /\ [](sens.capture.settled => ~sens.capture.handler)
  /\ [](~sens.capture.timer => (sens.capture.settled /\ ~sens.capture.handler))
  /\ [](now - sens.capture.created > CAPTURE_TIMEOUT_MS => sens.capture.settled)
  /\ [][sens.capture.settled =>
          (sens'.capture.settled /\ sens'.capture.result = sens.capture.result)]_vars
  /\ [][(~sens.capture.settled /\ now' # now) =>
          /\ sens'.capture.settled
          /\ IF sens'.capture.timer
               THEN /\ now' - sens.capture.created <= CAPTURE_TIMEOUT_MS
                    /\ \E e \in RawReadings :
                         sens'.capture.result = CalibrationOf(e)
               ELSE /\ now' - sens.capture.created = CAPTURE_TIMEOUT_MS
                    /\ sens'.capture.result = ZeroCalibration]_vars

\* the timer has fired after an event had settled the Promise, and the
\* result is still what the event gave
C18_Witness ==
  /\ "capture" \in DOMAIN sens
  /\ ~sens.capture.timer /\ ~sens.capture.handler
  /\ sens.capture.settled
  /\ sens.capture.result = [betaOffset |-> 45, gammaOffset |-> 0]

----------------------------------------------------------------------------
(* Rotational axis *)

\* the angle in [-180, 180] that differs from delta by a whole turn
Wrapped(delta) ==
  CHOOSE w \in -180..180 :
    /\ (w - delta) % 360 = 0
    /\ delta \in -180..180 => w = delta

\* C19: in a run of the handler, the first alpha that is not null becomes the
\* baseline and counts as a raw value of 0; a baseline once set is never
\* replaced; every later alpha counts as (alpha - baseline) wrapped into
\* [-180, 180], divided by 45 and clamped to [-1, 1].  The raw value is what
\* the smoothed alpha moves towards.
C19_AlphaRelativeToBaseline ==
  [][\A ev \in PadSamples, d \in EventGaps :
       (/\ PadOrientation(ev, d)
        /\ listeners[1].attached
        /\ now' - listeners[1].last >= THROTTLE_MS) =>
         LET l   == listeners[1]
             l2  == listeners'[1]
             raw == IF ev.alpha = Null \/ l.alphaBaseline = Null THEN 0
                    ELSE clamp(Quot(Wrapped(ev.alpha - l.alphaBaseline) * 1000, 45),
                               -1000, 1000)
         IN /\ l2.alphaBaseline =
                 IF l.alphaBaseline = Null THEN ev.alpha ELSE l.alphaBaseline
            /\ l2.smoothAlpha = l.smoothAlpha + Quot(raw - l.smoothAlpha, 4)
            /\ out'.state.alpha = l2.smoothAlpha]_vars

\* with the baseline at 10 degrees a sample of 350 degrees has counted as 20
\* degrees to the negative side
C19_Witness ==
  /\ Len(listeners) = 1 /\ out.src = "pad"
  /\ listeners[1].alphaBaseline = 10
  /\ listeners[1].smoothAlpha = Quot(Quot(-20 * 1000, 45), 4)

----------------------------------------------------------------------------
(* Saturation *)

\* the estimator reports direction +1 at full energy, its velocity at the ceiling
Saturated ==
  /\ sens.bow.velocity = MAX_VEL
  /\ sens.bow.direction = 1
  /\ out.src = "motion"
  /\ out.state.bowDirection = 1
  /\ out.state.bowEnergy = EnergyOne

\* the accelerations whose damped integration reaches the ceiling:
\* a * dt * D / (1 - D) >= MAX_VEL, with D the damping of one frame
StrongAccels ==
  {a \in SustainedAccels :
     a * FRAME_MS * DampTable[FRAME_MS + 1]
       >= MAX_VEL * (10000 - DampTable[FRAME_MS + 1])}

HeldIsStrong == call.n \in StrongAccels

\* C20 as stated: a positive acceleration that is held eventually makes the
\* estimator report direction +1 and energy 1 with the velocity at MAX_VEL,
\* whatever the direction was.
C20_SustainedPositiveSaturates == <>Saturated

\* C20 amended: a held positive acceleration strong enough for the damped
\* integration to reach the ceiling eventually makes the estimator report
\* direction +1 and energy 1 with the velocity at MAX_VEL, for good and
\* whatever the direction was; under a weaker one the energy stays below 1.
C20_StrongSustainedSaturates ==
  /\ <>[]Saturated \/ <>(~HeldIsStrong)
  /\ []((~HeldIsStrong /\ out.samples > PriorSamples) =>
          out.state.bowEnergy < EnergyOne)

\* the estimator is saturated in the direction +1 after a reversal that
\* happened while the acceleration was held: the events since the reversal
\* are fewer than the events under the held acceleration
C20_Witness ==
  /\ HasSensors /\ call.op = "sustain"
  /\ Saturated
  /\ out.reversalAt # Null
  /\ out.time - out.reversalAt <= FRAME_MS * (out.samples - PriorSamples - 1)

----------------------------------------------------------------------------
(* Control targets *)

\* C21: the delay feedback gain is never above 0.75 and the delay wet gain
\* never above 0.5; a motion sample whose alpha drives delay-feedback sets
\* feedback = |v| * 0.75 and wet = min(feedback + 0.1, 0.5), v being the
\* value clamped to [-1, 1], so 0.75 and 0.5 at v = 1 and beyond; nothing
\* but such a sample raises the feedback gain.
C21_DelayFeedbackCapped ==
  /\ [](/\ engine.params.delayFeedback <= FEEDBACK_CAP
        /\ engine.params.delayWet <= WET_CAP)
  /\ [][\A s \in WideSamples :
          (MotionSample(s) /\ engine.mappings.alpha = "delay-feedback") =>
             LET v == clamp(s.alpha, -1000, 1000)
             IN /\ engine'.params.delayFeedback = (Abs(v) * FEEDBACK_CAP) \div 1000
                /\ engine'.params.delayWet =
                     Min(engine'.params.delayFeedback + 10000, WET_CAP)
                /\ Abs(v) = 1000 =>
                     /\ engine'.params.delayFeedback = FEEDBACK_CAP
                     /\ engine'.params.delayWet = WET_CAP]_vars
  /\ [][engine'.params.delayFeedback > engine.params.delayFeedback =>
          /\ call'.op = "setMotion" /\ delivered' = delivered + 1
          /\ engine.mappings.alpha = "delay-feedback"]_vars

\* a motion sample with alpha at -1.5 has just driven delay-feedback, and the
\* feedback gain stands at 0.75, the wet gain at 0.5
C21_Witness ==
  /\ call.op = "setMotion" /\ call.sample.alpha < -1000
  /\ engine.mappings.alpha = "delay-feedback"
  /\ engine.params.delayFeedback = FEEDBACK_CAP
  /\ engine.params.delayWet = WET_CAP

\* values a control target may be given, inside and outside [-1, 1], rising
ControlSeq == <<-1500, -1000, -400, 0, 400, 1000, 1500>>

ControlRange == {ControlSeq[i] : i \in 1..Len(ControlSeq)}

\* the value applyControl works with
Clamped(v) == clamp(v, -1000, 1000)

\* the parameter a control target writes, as it stands in an engine
Written(e, target) ==
  CASE target = "filter-cutoff" -> e.params.filterFreq
    [] target = "volume" -> e.params.masterGain
    [] target = "wave-blend" -> e.waveBlend
    [] target = "vibrato-depth" -> e.params.lfoGain
    [] target = "resonance" -> e.params.filterQ
    [] target = "reverb" -> e.params.reverbWet
    [] target = "reverb-dry" -> e.params.reverbDry
    [] target = "pan" -> e.params.pan
    [] target = "distortion" -> e.params.distCurve
    [] target = "delay-feedback" -> e.params.delayFeedback
    [] target = "pitch-bend" ->
         IF Len(e.voices) = 0 THEN 0 ELSE e.nodes[e.voices[1][2]].detune

\* what the target would write for value v in the engine as it is
ParamOf(target, v) ==
  Written(applyControl(engine, IF target = "reverb-dry" THEN "reverb" ELSE target, v),
          target)

\* the parameter never falls as the value rises
RisesWithValue(target) ==
  \A i \in 1..(Len(ControlSeq) - 1) :
    ParamOf(target, ControlSeq[i]) <= ParamOf(target, ControlSeq[i + 1])

\* the parameter depends on the size of the value only
SameForBothSigns(target) ==
  \A v \in ControlRange : v > 0 => ParamOf(target, -v) = ParamOf(target, v)

\* the parameter is a function of the size of the value that never falls
RisesWithSize(target) ==
  /\ SameForBothSigns(target)
  /\ \A i \in 1..(Len(ControlSeq) - 1) :
       ControlSeq[i] >= 0 =>
         ParamOf(target, ControlSeq[i]) <= ParamOf(target, ControlSeq[i + 1])

\* the parameter is a function of the size of the value that never rises
FallsWithSize(target) ==
  /\ SameForBothSigns(target)
  /\ \A i \in 1..(Len(ControlSeq) - 1) :
       ControlSeq[i] >= 0 =>
         ParamOf(target, ControlSeq[i]) >= ParamOf(target, ControlSeq[i + 1])

\* every parameter is inside its documented range, in the engine as it is and
\* for every value a target may be given; values outside [-1, 1] count as
\* the nearest end; the cutoff is 200 Hz at -1 and 4000 Hz at 1
WithinDocumentedRanges ==
  /\ \A v \in ControlRange :
       /\ Clamped(v) # v =>
            \A target \in {"filter-cutoff", "volume", "wave-blend", "vibrato-depth",
                           "resonance", "reverb", "reverb-dry", "pan", "pitch-bend"} :
              ParamOf(target, v) = ParamOf(target, Clamped(v))
       /\ ParamOf("filter-cutoff", v) \in 200..4000
       /\ ParamOf("volume", v) \in 15000..90000
       /\ ParamOf("wave-blend", v) \in 0..1000
       /\ ParamOf("vibrato-depth", v) \in 0..40000
       /\ ParamOf("resonance", v) \in 500..14500
       /\ ParamOf("reverb", v) \in 0..80000
       /\ ParamOf("reverb-dry", v) \in 70000..100000
       /\ ParamOf("pan", v) \in -1000..1000
       /\ ParamOf("pitch-bend", v) \in -200000..200000
  /\ ParamOf("filter-cutoff", -1000) = 200
  /\ ParamOf("filter-cutoff", 1000) = 4000
  /\ engine.params.filterFreq \in 200..4000
  /\ engine.params.masterGain \in 15000..90000
  /\ engine.waveBlend \in 0..1000
  /\ engine.params.lfoGain \in 0..40000
  /\ engine.params.filterQ \in 500..14500
  /\ engine.params.reverbWet \in 0..80000
  /\ engine.params.reverbDry \in 70000..100000
  /\ engine.params.pan \in -1000..1000
  /\ \A i \in 1..Len(engine.nodes) : engine.nodes[i].detune \in -200000..200000

\* C22 as stated: every target's parameter is monotonic in |v|, in v for pan
\* and pitch-bend, and stays inside its documented range, values outside
\* [-1, 1] being clamped first.
C22_MonotonicInSizeAndInRange ==
  /\ \A target \in {"filter-cutoff", "volume", "wave-blend", "vibrato-depth",
                    "resonance", "reverb"} :
       RisesWithSize(target) \/ FallsWithSize(target)
  /\ RisesWithSize("reverb-dry") \/ FallsWithSize("reverb-dry")
  /\ RisesWithValue("pan") /\ RisesWithValue("pitch-bend")
  /\ WithinDocumentedRanges

\* C22 amended: cutoff, volume, blend, pan and pitch-bend rise with v;
\* vibrato depth, Q and reverb wet rise with |v| and reverb dry falls with
\* |v|; every parameter stays inside its documented range, values outside
\* [-1, 1] being clamped first, with the cutoff at 200 Hz for v = -1 and at
\* 4000 Hz for v = 1.
C22_MonotonicInValueOrSizeAndInRange ==
  /\ \A target \in {"filter-cutoff", "volume", "wave-blend", "pan", "pitch-bend"} :
       RisesWithValue(target)
  /\ \A target \in {"vibrato-depth", "resonance", "reverb"} : RisesWithSize(target)
  /\ FallsWithSize("reverb-dry")
  /\ WithinDocumentedRanges

\* a motion sample has just driven the cutoff to 200 Hz with beta at -1 and
\* the reverb to its ends with gamma at 1.5, while a voice sounds
C22_Witness ==
  /\ call.op = "setMotion"
  /\ call.sample.beta = -1000 /\ call.sample.gamma > 1000
  /\ engine.mappings.beta = "filter-cutoff" /\ engine.mappings.gamma = "reverb"
  /\ engine.params.filterFreq = 200
  /\ engine.params.reverbWet = 80000 /\ engine.params.reverbDry = 70000
  /\ Len(engine.voices) = 1

----------------------------------------------------------------------------
(* Voices and their release tails *)

\* the oscillator pairs of one pitch that sound: started, and not yet stopped
SoundingPairs(e, midi) ==
  {i \in 1..Len(e.nodes) : e.nodes[i].midi = midi /\ e.nodes[i].state # "stopped"}

\* C23: a voice stays in the voice table until its release tail is over:
\* every oscillator pair that has not stopped is the voice of its pitch in
\* the table, so that at most one pair per pitch sounds, also when noteOn
\* comes for a pitch whose voice is in its release tail.
C23_VoiceOwnedUntilTailEnds ==
  /\ \A i \in 1..Len(engine.nodes) :
       engine.nodes[i].state # "stopped" =>
         /\ HasVoice(engine, engine.nodes[i].midi)
         /\ GetVoice(engine, engine.nodes[i].midi) = i
  /\ \A m \in MidiKeys : Cardinality(SoundingPairs(engine, m)) <= 1

----------------------------------------------------------------------------
(* Start of the graph *)

\* C24: for one engine the audio context with its graph is built at most
\* once, whatever start calls are made and also when a second start comes
\* before the first has resumed; Home registers at most one sensor listener
\* however often Start is tapped.
C24_GraphBuiltOnce ==
  /\ engine.graphs <= 1
  /\ Len(listeners) <= 1

----------------------------------------------------------------------------
(* The persistent voice of the monophonic engine *)

\* C25: after start the engine keeps the sources start() created, whatever
\* setGate, setPitch, setBow, triggerOnset, setBrightness, setVibratoDepth
\* and allOff calls are made: none is created, none is stopped; setGate
\* changes the gate flag and the level targets only; and every level target
\* set while the gate is closed (by setGate(false), by setBow, by allOff) is
\* 0 for the body gain and for the noise gain, whatever the bow energy.
C25_OnePersistentVoice ==
  /\ [](/\ engine.graphs = 1
        /\ engine.sources = SOURCES_PER_GRAPH
        /\ engine.stopped = 0)
  /\ [][\A on \in BOOLEAN :
          SetGate(on) =>
            /\ engine'.gateOpen = on
            /\ \A f \in DOMAIN engine \ {"gateOpen", "bodyGain", "noiseGain"} :
                 engine'[f] = engine[f]
            /\ engine'.bodyGain.pending = engine.bodyGain.pending
            /\ engine'.noiseGain.pending = engine.noiseGain.pending]_vars
  /\ [][(\/ SetGate(FALSE)
         \/ ViolinAllOff
         \/ \E b \in BowStates : SetBow(b[1], b[2]) /\ ~engine.gateOpen) =>
          /\ ~engine'.gateOpen
          /\ engine'.bodyGain.target = 0
          /\ engine'.noiseGain.target = 0]_vars

\* with the gate closed after a note, setBow has just been called with full
\* bow energy, and the level targets are 0
C25_Witness ==
  /\ call = [op |-> "setBow", n |-> 1000]
  /\ ~engine.gateOpen /\ engine.bowEnergy = 1000
  /\ engine.currentMidi = 69
  /\ engine.bodyGain.target = 0 /\ engine.noiseGain.target = 0
  /\ now > 0

----------------------------------------------------------------------------
(* Null sensor fields *)

\* the number a field counts as: 0 when it is null
CountsAs(x) == IF x = Null THEN 0 ELSE x

\* C26: a null beta or gamma counts as 0 degrees, in listenSensors and in
\* listenMotion; a devicemotion event without acceleration counts with its
\* accelerationIncludingGravity, and as 0 when that is missing too; a null
\* alpha gives the raw value 0 and sets no baseline.  Every such event is
\* handled like the event with the numbers filled in.
C26_NullFieldsCountAsZero ==
  [][/\ \A e \in NullableTilt :
          SensorOrientation(e) =>
            /\ sens'.latestBeta = CountsAs(e.beta) - sens.bOff
            /\ sens'.latestGamma = CountsAs(e.gamma) - sens.gOff
     /\ \A e \in NullableMotion, d \in NullFieldGaps :
          (DeviceMotion(e, d) /\ sens.motionAttached) =>
            LET acc == IF e.acceleration # Null THEN e.acceleration
                       ELSE CountsAs(e.accelerationIncludingGravity)
                r   == onMotion(sens, [acceleration |-> acc,
                                       accelerationIncludingGravity |-> 0], now')
            IN /\ sens' = r.sens
               /\ out'.state = r.state
     /\ \A ev \in NullablePad :
          (PadOrientation(ev, THROTTLE_MS) /\ listeners[1].attached
             /\ now' - listeners[1].last >= THROTTLE_MS) =>
            LET l  == listeners[1]
                l2 == listeners'[1]
                filled == [alpha |-> IF ev.alpha # Null THEN ev.alpha
                                     ELSE IF l.alphaBaseline # Null THEN l.alphaBaseline
                                     ELSE 0,
                           beta |-> CountsAs(ev.beta), gamma |-> CountsAs(ev.gamma)]
                r  == MotionHandler(l, filled, now').l
            IN /\ l2.smoothBeta = r.smoothBeta
               /\ l2.smoothGamma = r.smoothGamma
               /\ l2.smoothAlpha = r.smoothAlpha
               /\ ev.alpha = Null =>
                    /\ l2.alphaBaseline = l.alphaBaseline
                    /\ l2.smoothAlpha = l.smoothAlpha + Quot(0 - l.smoothAlpha, 4)
               /\ out'.state = [alpha |-> l2.smoothAlpha, beta |-> l2.smoothBeta,
                                gamma |-> l2.smoothGamma]]_vars

\* the latest orientation event had a null beta, and a devicemotion event
\* without acceleration has been handled with its accelerationIncludingGravity
C26_Witness ==
  /\ HasSensors /\ out.src = "motion"
  /\ sens.latestBeta = 0 /\ sens.latestGamma = -30
  /\ sens.bow.velocity < 0

----------------------------------------------------------------------------
(* Failures of the permission API *)

PermissionStatuses == {"granted", "denied", "not-needed", "no-sensor"}

\* C27: whatever the platform's permission API does (resolves granted,
\* resolves something else, rejects, is absent), the motion-start path ends
\* with one of the four status values and throws nothing: no handleStart is
\* ended by an exception of requestMotionPermission, every settled result is
\* a status value, and startMotion and requestAllPermissions throw nothing
\* on the platforms met.
C27_FailuresAreStatusValues ==
  \A i \in 1..Len(hs) :
    /\ hs[i].pc # "threw"
    /\ hs[i].permResult \in PermissionStatuses \cup {"none"}
    /\ hs[i].api \in BrowserAPIs =>
         /\ requestMotionPermission(hs[i].api) \in PermissionStatuses
         /\ startMotion(hs[i].api) # "throws"
         /\ requestAllPermissions(hs[i].api) # "throws"

----------------------------------------------------------------------------
(* Who changes the axis mapping *)

\* C28: only a cycle action changes the mapping: start, noteOn, noteOff,
\* allOff and setMotion leave the targets of all three axes as they are, in
\* the engine and in the page; and a setMotion writes, for every axis, the
\* parameter of the target the axis is mapped to when it is called, so a
\* cycle shows in the next motion sample.
C28_MappingChangedOnlyByCycles ==
  [][/\ ~(\E axis \in Axes : CycleMapping(axis)) =>
          /\ engine'.mappings = engine.mappings
          /\ page'.mappings = page.mappings
     /\ \A s \in WideSamples :
          MotionSample(s) =>
            \A axis \in Axes :
              Written(engine', engine.mappings[axis])
                = ParamOf(engine.mappings[axis], s[axis])]_vars

\* a motion sample has been applied under a mapping that cycles moved away
\* from the default on every axis
C28_Witness ==
  /\ call.op = "setMotion"
  /\ \A axis \in Axes : engine.mappings[axis] # DEFAULT_MAPPINGS[axis]

----------------------------------------------------------------------------
(* Ranges of the bow state *)

\* C29: every state given to the consumer has a bow energy between 0 and 1
\* (EnergyOne) and a bow direction of 1 or -1; the velocity of the estimator
\* stays within -MAX_VEL .. MAX_VEL; the energy is 0 when the size of the
\* velocity is below the dead zone, and 1 when it equals MAX_VEL.
C29_BowStateInRange ==
  HasSensors =>
    /\ sens.bow.velocity >= -MAX_VEL /\ sens.bow.velocity <= MAX_VEL
    /\ out.src \in {"motion", "watchdog"} =>
         /\ out.state.bowEnergy \in 0..EnergyOne
         /\ out.state.bowDirection \in {-1, 1}
    /\ out.src = "motion" =>
         /\ Abs(sens.bow.velocity) < DEAD_ZONE => out.state.bowEnergy = 0
         /\ Abs(sens.bow.velocity) = MAX_VEL => out.state.bowEnergy = EnergyOne

\* the consumer has been given the energy 1 with the velocity at its ceiling
C29_Witness ==
  /\ HasSensors /\ out.src = "motion"
  /\ Abs(sens.bow.velocity) = MAX_VEL
  /\ out.state.bowEnergy = EnergyOne

----------------------------------------------------------------------------
(* Pitch bend across voices *)

CENTS_PER_UNIT == 200      \* the detune of pitch-bend at the value 1, in cents

\* the detune target of both oscillators of the i-th voice of the table
DetuneOf(e, i) == e.nodes[e.voices[i][2]].detune

\* C30: pitch bend is the same on every active voice: once setMotion has
\* applied pitch-bend with the value v, every active voice has the detune
\* target v * 200 cents, and a voice that noteOn creates later has the
\* detune of the voices that were there.
C30_PitchBendUniform ==
  /\ (call.op = "setMotion" /\ engine.mappings.alpha = "pitch-bend") =>
       \A i \in 1..Len(engine.voices) :
         DetuneOf(engine, i) = Clamped(call.sample.alpha) * CENTS_PER_UNIT
  /\ \A i, j \in 1..Len(engine.voices) : DetuneOf(engine, i) = DetuneOf(engine, j)

----------------------------------------------------------------------------
(* The closed gate and the events scheduled before it closed *)

\* C31: while the gate is closed (after setGate(false) or allOff, and before
\* start() has been followed by any setGate(true)), the automation target in
\* effect for the body gain and for the noise gain is 0: no event scheduled
\* before the gate closed, such as the return to level triggerOnset schedules
\* ONSET_RETURN_MS ahead, moves them to another level.
C31_ClosedGateStaysSilent ==
  ~engine.gateOpen =>
    /\ engine.bodyGain.target = 0
    /\ engine.noiseGain.target = 0

----------------------------------------------------------------------------
(* The watchdog while samples arrive *)

\* C32: the watchdog gives no false alarm: a run of the timer at which the
\* latest acceleration sample is no more than 400 ms old (WatchdogSilence)
\* gives the consumer nothing and leaves the integrator alone, and every
\* forced state the consumer holds was given more than 400 ms after the
\* latest sample; every other state it holds comes from a sample.
C32_NoFalseWatchdog ==
  /\ [][(TimerStep /\ now' - sens.lastMotionTime <= WatchdogSilence) =>
          /\ out' = out
          /\ sens'.bow = sens.bow]_vars
  /\ []((HasSensors /\ out.src = "watchdog") =>
          out.time - sens.lastMotionTime > WatchdogSilence)
  /\ []((HasSensors /\ out.src # "watchdog") =>
          \/ out.src = "none" /\ out.samples = 0
          \/ out.src = "motion" /\ out.time = sens.lastMotionTime)

\* the timer has just run, twice WatchdogPeriod after the listener was
\* created, with the latest sample younger than the silence: the consumer
\* still holds the state of that sample at full velocity
C32_Witness ==
  /\ HasSensors /\ sens.watchdog
  /\ out.src = "motion"
  /\ now = sens.created + 2 * WatchdogPeriod
  /\ sens.nextTick = now + WatchdogPeriod
  /\ now > sens.lastMotionTime /\ sens.lastMotionTime > sens.created + WatchdogPeriod
  /\ sens.bow.velocity # 0

----------------------------------------------------------------------------
(* The direction after the watchdog has acted *)

\* C33: once the watchdog has given the consumer the default direction, the
\* direction given does not go back to the one held before the silence
\* without a flip: the first sample after the silence, when its energy is at
\* most the hysteresis threshold 0.12, is given with the direction the
\* watchdog gave (+1).
C33_ForcedDirectionHolds ==
  [][\A e \in SilenceSamples, d \in ResumeGaps :
       (ResumedMotion(e, d) /\ out'.state.bowEnergy <= Hysteresis) =>
         out'.state.bowDirection = out.state.bowDirection]_vars

====
